---- MODULE Spec2Model ----
(***************************************************************************)
(* A model of ai-connect's OAuth redirect capture and code exchange:       *)
(*   - LocalServer (src/src/local_server/server.rs): bind, listen_with,    *)
(*     the blocking and the deadline-polling accept loop, handle_request;  *)
(*   - the cooperative handlers (src/src/local_server/http.rs):            *)
(*     callback_handler, fallback_handler, send_response,                  *)
(*     wait_for_response;                                                  *)
(*   - OAuthClient (src/src/client.rs): authorization_url_with_state,      *)
(*     run_local_flow, exchange_code, refresh_token, send_token_request.   *)
(* Strings the code takes apart (code, state) are sequences of one-letter  *)
(* strings; a query string is the sequence of decoded (key, value) pairs   *)
(* url::Url::query_pairs yields for it.                                    *)
(***************************************************************************)
EXTENDS Integers, Sequences, FiniteSets, Bags, TLC

(* ------------------------------ bounds -------------------------------- *)
\* longest query, in key=value pairs
MaxPairs == 2
\* connections one listen call is offered
MaxConns == 3
\* longest configured timeout, in poll intervals (server.rs:103, 50 ms)
MaxTimeout == 2
\* concurrent callback_handler invocations in the cooperative mode
NumHandlers == 2

(* ------------------------------ values -------------------------------- *)
None == <<>>
Some(x) == <<x>>
IsSome(o) == o # <<>>
Unwrap(o) == o[1]

Ok(v) == [ok |-> TRUE, val |-> v]
Err(e) == [ok |-> FALSE, err |-> e]

\* OAuthError variants
\* io: the call that failed (the io::Error inside)
ErrIo(syscall) == [kind |-> "Io", io |-> syscall]
ErrUrl == [kind |-> "Url"]
ErrMissingAuthorizationCode == [kind |-> "MissingAuthorizationCode"]
ErrLocalServerTimeout(t) == [kind |-> "LocalServerTimeout", timeout |-> t]
ErrStateMismatch(e, r) == [kind |-> "StateMismatch", expected |-> e, received |-> r]
ErrInvalidResponse(m) == [kind |-> "InvalidResponse", message |-> m]
ErrInvalidResponseBody(m, b) == [kind |-> "InvalidResponse", message |-> m, body |-> b]
ErrHttp == [kind |-> "Http"]
ErrHttpStatus(code, b) == [kind |-> "HttpStatus", status |-> code, body |-> b]
ErrInvalidHeader(n, v) == [kind |-> "InvalidHeader", name |-> n, value |-> v]
ErrInvalidRedirectUri == [kind |-> "InvalidRedirectUri"]
ErrOsRng == [kind |-> "OsRng"]
ErrCallback == [kind |-> "OnAuthorize"]

\* sample strings: two plain values that differ, and a value holding '#'
Vals == { <<"a">>, <<"b">>, <<"a", "#", "b">> }
\* what PkcePair::generate can return: base64url text, never holding '#'
Verifiers == { <<"a">>, <<"b">> }
Keys == {"code", "state", "other"}
Pairs == { <<k, v>> : k \in {"code", "state"}, v \in Vals } \cup { <<"other", <<"a">> >> }

Queries == UNION { [1..n -> Pairs] : n \in 0..MaxPairs }

(* ------------------------------ types.rs ------------------------------ *)
\* str::split_once('#'): the text before and after the first '#', if any
HashAt(s) == { i \in 1..Len(s) : s[i] = "#" }
FirstHash(s) == CHOOSE i \in HashAt(s) : \A j \in HashAt(s) : i <= j
split_once(s) ==
    IF HashAt(s) = {} THEN None
    ELSE Some(<< SubSeq(s, 1, FirstHash(s) - 1), SubSeq(s, FirstHash(s) + 1, Len(s)) >>)

\* from_callback without the state.is_none() test: the code is split at '#'
\* even when a state parameter came with it
from_callback_always_splits(code, state) ==
    IF IsSome(split_once(code))
    THEN [code |-> Unwrap(split_once(code))[1], state |-> Some(Unwrap(split_once(code))[2])]
    ELSE [code |-> code, state |-> state]

\* from_callback splitting at the last '#' (rsplit_once)
from_callback_splits_at_last_hash(code, state) ==
    LET last == CHOOSE i \in HashAt(code) : \A j \in HashAt(code) : j <= i
    IN IF state = None /\ HashAt(code) # {}
       THEN [code |-> SubSeq(code, 1, last - 1),
             state |-> Some(SubSeq(code, last + 1, Len(code)))]
       ELSE [code |-> code, state |-> state]

from_callback(code, state) ==
    IF state = None /\ IsSome(split_once(code))
    THEN [code |-> Unwrap(split_once(code))[1], state |-> Some(Unwrap(split_once(code))[2])]
    ELSE [code |-> code, state |-> state]

\* the loop over url.query_pairs(): the last "code" and the last "state" win
KeyAt(query, key) == { i \in 1..Len(query) : query[i][1] = key }
LastOf(query, key) ==
    IF KeyAt(query, key) = {} THEN None
    ELSE Some(query[CHOOSE i \in KeyAt(query, key) : \A j \in KeyAt(query, key) : j <= i][2])

\* callback_url: [query]; parses: whether Url::parse accepts the text
from_url(callback_url, parses) ==
    IF ~parses THEN Err(ErrUrl)
    ELSE IF LastOf(callback_url.query, "code") = None THEN Err(ErrMissingAuthorizationCode)
    ELSE Ok(from_callback(Unwrap(LastOf(callback_url.query, "code")),
                          LastOf(callback_url.query, "state")))

(* -------------------------- local_server/target.rs -------------------- *)
\* the configured path and one other
CallbackPath == "/callback"
Paths == {CallbackPath, "/other"}

\* parses: whether Url::parse accepts base?query (not consulted for an empty query)
build_callback_url(query, parses) ==
    IF query = <<>> THEN Ok([query |-> <<>>])
    ELSE IF ~parses THEN Err(ErrUrl)
    ELSE Ok([query |-> query])

(* -------------------------- local_server/server.rs -------------------- *)
Methods == {"GET", "POST"}
Requests ==
    [method : Methods, path : Paths, query : Queries, build_ok : BOOLEAN, parse_ok : BOOLEAN]

\* what one accepted connection does: the first read returns bytes holding a
\* request, returns 0 bytes, fails, or (only with a read timeout set) times out
DataConns == [read : {"data"}, req : Requests, write_ok : BOOLEAN]
Conns(timed) ==
    DataConns \cup { [read |-> "eof"], [read |-> "err"] }
              \cup (IF timed THEN { [read |-> "timeout"] } ELSE {})

\* write_response: the status line reaches the stream, or write_all fails
write_response(c, status, ret) ==
    IF c.write_ok THEN [status |-> status, ret |-> ret]
    ELSE [status |-> "none", ret |-> Err(ErrIo("write"))]

handle_request_parsed(c, callback_url) ==
    LET parsed == from_url(callback_url, c.req.parse_ok)
    IN IF parsed.ok THEN write_response(c, "200", Ok(Some(parsed.val)))
       ELSE IF parsed.err = ErrMissingAuthorizationCode THEN write_response(c, "400", Ok(None))
       ELSE write_response(c, "500", Err(parsed.err))

\* handle_request with the path test moved above the method test
handle_request_path_first(c) ==
    IF c.read = "err" THEN [status |-> "none", ret |-> Err(ErrIo("read"))]
    ELSE IF c.read = "timeout" THEN [status |-> "none", ret |-> Err(ErrIo("read_timeout"))]
    ELSE IF c.read = "eof" THEN [status |-> "none", ret |-> Ok(None)]
    ELSE IF c.req.path # CallbackPath THEN write_response(c, "404", Ok(None))
    ELSE IF c.req.method # "GET" THEN write_response(c, "405", Ok(None))
    ELSE LET built == build_callback_url(c.req.query, c.req.build_ok)
         IN IF ~built.ok THEN [status |-> "none", ret |-> Err(built.err)]
            ELSE handle_request_parsed(c, built.val)

\* handle_request with the read's error dropped (`unwrap_or(0)` for `?`)
handle_request_read_error_absorbed(c) ==
    IF c.read \in {"err", "timeout", "eof"} THEN [status |-> "none", ret |-> Ok(None)]
    ELSE IF c.req.method # "GET" THEN write_response(c, "405", Ok(None))
    ELSE IF c.req.path # CallbackPath THEN write_response(c, "404", Ok(None))
    ELSE LET built == build_callback_url(c.req.query, c.req.build_ok)
         IN IF ~built.ok THEN [status |-> "none", ret |-> Err(built.err)]
            ELSE handle_request_parsed(c, built.val)

\* handle_request with the path test ending the call: a 404 that is an error
handle_request_fatal_404(c) ==
    IF c.read = "err" THEN [status |-> "none", ret |-> Err(ErrIo("read"))]
    ELSE IF c.read = "timeout" THEN [status |-> "none", ret |-> Err(ErrIo("read_timeout"))]
    ELSE IF c.read = "eof" THEN [status |-> "none", ret |-> Ok(None)]
    ELSE IF c.req.method # "GET" THEN write_response(c, "405", Ok(None))
    ELSE IF c.req.path # CallbackPath
    THEN write_response(c, "404", Err(ErrInvalidResponse("not found")))
    ELSE LET built == build_callback_url(c.req.query, c.req.build_ok)
         IN IF ~built.ok THEN [status |-> "none", ret |-> Err(built.err)]
            ELSE handle_request_parsed(c, built.val)

\* [status: the status written to the stream ("none": nothing), ret: the Result]
handle_request(c) ==
    IF c.read = "err" THEN [status |-> "none", ret |-> Err(ErrIo("read"))]
    ELSE IF c.read = "timeout" THEN [status |-> "none", ret |-> Err(ErrIo("read_timeout"))]
    ELSE IF c.read = "eof" THEN [status |-> "none", ret |-> Ok(None)]
    ELSE IF c.req.method # "GET" THEN write_response(c, "405", Ok(None))
    ELSE IF c.req.path # CallbackPath THEN write_response(c, "404", Ok(None))
    ELSE LET built == build_callback_url(c.req.query, c.req.build_ok)
         IN IF ~built.ok THEN [status |-> "none", ret |-> Err(built.err)]
            ELSE handle_request_parsed(c, built.val)

\* whether rebuilding the callback URL from the request's query fails
UrlFails(req) == (req.query # <<>> /\ ~req.build_ok) \/ ~req.parse_ok
HasCode(query) == \E i \in 1..Len(query) : query[i][1] = "code"

\* the kind of request, in the words of the contract (not read by the server)
ReqClass(req) ==
    IF req.method # "GET" THEN "non_get"
    ELSE IF req.path # CallbackPath THEN "wrong_path"
    ELSE IF UrlFails(req) THEN "bad_url"
    ELSE IF ~HasCode(req.query) THEN "no_code"
    ELSE "valid"

\* the kind of connection: how its read ends, and the kind of request read
ConnClass(c) == IF c.read # "data" THEN c.read ELSE ReqClass(c.req)

\* every connection kind with what handle_request does with it
Handled(timed) == { [class |-> ConnClass(c), out |-> handle_request(c)] : c \in Conns(timed) }
HandledBlocking == Handled(FALSE)
HandledTimed == Handled(TRUE)

(* ---------------------- LocalServer: the listen call ------------------- *)
VARIABLES
    mode,         \* the entry point: "listen_once", "coop", "run_local_flow", "exchange_code",
                  \* "refresh_token", "authorization_url", "types"
    srv_timeout,  \* LocalServer.timeout: None or Some(poll intervals)
    srv_pc,       \* "idle", "bound", "accept", "poll", "handle", "done"
    listener,     \* the TcpListener: "none", "bound", "closed"
    now,          \* Instant::now(), in poll intervals
    deadline,     \* listen_with_timeout's deadline
    accepted,     \* connections accept() has returned
    log,          \* per handled connection: its kind and what handle_request did
    srv_result,   \* None, or Some(what listen_with / listen_once returned)
    conn          \* NoConn, or the one connection a client keeps making

srv_vars ==
    <<mode, srv_timeout, srv_pc, listener, now, deadline, accepted, log, srv_result, conn>>

VARIABLES
    slot,      \* response_tx: TRUE while the mutex-guarded Option holds the sender
    mutex,     \* 0, or the handler holding response_tx's lock
    chan,      \* the oneshot channel: None, or Some(the ResponseResult sent)
    rx,        \* the receiver: "open", "closed" once the sender was dropped unsent,
               \* or "dropped" once wait_for_response returned
    handlers,  \* per handler invocation: pc, request kind, status, pending message
    sent,      \* the messages passed to sender.send, in order
    first,     \* None, or Some(message of the first caller inside send_response)
    waiter     \* None, or Some(what wait_for_response returned)

coop_vars == <<slot, mutex, chan, rx, handlers, sent, first, waiter>>

VARIABLES
    cfg,             \* the OAuthClientConfig fields the flow reads
    flow_pc,         \* where run_local_flow / exchange_code stands
    auth,            \* None, or Some(the AuthorizationRequest built)
    steps,           \* the steps run_local_flow has performed, in order
    task,            \* the spawn_blocking listen task: "none" or "spawned"
    call,            \* None, or Some(the arguments exchange_code or
                     \* authorization_url_with_state was called with)
    token_requests,  \* the requests POSTed to the token endpoint, in order
    flow_result,     \* None, or Some(what the operation returned)
    provider,        \* the OAuthClient's provider
    http_response    \* None, or Some(what the token endpoint's POST came back with)

flow_vars ==
    <<cfg, flow_pc, auth, steps, task, call, token_requests, flow_result, provider,
      http_response>>

VARIABLES
    subject,  \* None, or Some(the value a function of types.rs, pkce.rs,
              \* target.rs or config.rs is called on)
    results   \* what the calls on it returned, in order

type_vars == <<subject, results>>
vars == <<srv_vars, coop_vars, flow_vars, type_vars>>

\* the thread running listen_with: listen_once's caller, or the flow's listen task
ListenRuns == mode = "listen_once" \/ (mode = "run_local_flow" /\ task = "spawned")

Timeouts == { None } \cup { Some(t) : t \in 1..MaxTimeout }

\* listen_with returning with the listener still bound
Return_keeps_listener(res) ==
    /\ srv_pc' = "done"
    /\ srv_result' = Some(res)
    /\ UNCHANGED listener

\* listen_with returns: the listener it owns is dropped
Return(res) ==
    /\ srv_pc' = "done"
    /\ srv_result' = Some(res)
    /\ listener' = IF listener = "bound" THEN "closed" ELSE listener

\* server.rs:55-57, called by listen_once (server.rs:111)
bind ==
    /\ mode = "listen_once"
    /\ srv_pc = "idle"
    /\ \E ok \in BOOLEAN :
         IF ok THEN /\ srv_pc' = "bound"
                    /\ listener' = "bound"
                    /\ UNCHANGED srv_result
         ELSE Return(Err(ErrIo("bind")))
    /\ UNCHANGED <<mode, conn, srv_timeout, now, deadline, accepted, log>>
    /\ UNCHANGED <<coop_vars, flow_vars, type_vars>>

\* server.rs:59-65 and the head of listen_with_timeout (82-83)
listen_with ==
    /\ ListenRuns
    /\ srv_pc = "bound"
    /\ IF srv_timeout = None
       THEN /\ srv_pc' = "accept"
            /\ UNCHANGED <<deadline, srv_result, listener>>
       ELSE \E nonblocking_ok \in BOOLEAN :
              IF nonblocking_ok
              THEN /\ srv_pc' = "poll"
                   /\ deadline' = now + Unwrap(srv_timeout)
                   /\ UNCHANGED <<srv_result, listener>>
              ELSE /\ Return(Err(ErrIo("set_nonblocking")))
                   /\ UNCHANGED deadline
    /\ UNCHANGED <<mode, conn, srv_timeout, now, accepted, log>>
    /\ UNCHANGED <<coop_vars, flow_vars, type_vars>>

\* the loop with `Some(response) => continue`: it goes on accepting
AfterRequest_keeps_accepting(out) ==
    IF ~out.ret.ok THEN Return(Err(out.ret.err))
    ELSE /\ srv_pc' = (IF srv_timeout = None THEN "accept" ELSE "poll")
         /\ UNCHANGED <<srv_result, listener>>

\* the step after handle_request returned `out` (server.rs:70-73, 98-100)
AfterRequest(out) ==
    IF ~out.ret.ok THEN Return(Err(out.ret.err))
    ELSE IF IsSome(out.ret.val) THEN Return(Ok(Unwrap(out.ret.val)))
    ELSE /\ srv_pc' = (IF srv_timeout = None THEN "accept" ELSE "poll")
         /\ UNCHANGED <<srv_result, listener>>

\* listen_blocking: accept() returns (server.rs:69)
accept_blocking ==
    /\ ListenRuns
    /\ srv_pc = "accept"
    /\ \/ /\ accepted < MaxConns
          /\ accepted' = accepted + 1
          /\ srv_pc' = "handle"
          /\ UNCHANGED <<srv_result, listener>>
       \/ /\ Return(Err(ErrIo("accept")))
          /\ UNCHANGED accepted
    /\ UNCHANGED <<mode, conn, srv_timeout, now, deadline, log>>
    /\ UNCHANGED <<coop_vars, flow_vars, type_vars>>

\* listen_blocking: handle_request on the accepted stream (server.rs:70-73)
handle_blocking ==
    /\ ListenRuns
    /\ srv_pc = "handle"
    /\ srv_timeout = None
    /\ \E h \in HandledBlocking :
         /\ log' = Append(log, h)
         /\ AfterRequest(h.out)
    /\ UNCHANGED <<mode, conn, srv_timeout, now, deadline, accepted>>
    /\ UNCHANGED <<coop_vars, flow_vars, type_vars>>

\* listen_with_timeout: one turn of the loop up to handle_request (server.rs:85-106)
poll_accept ==
    /\ ListenRuns
    /\ srv_pc = "poll"
    /\ IF now >= deadline
       THEN /\ Return(Err(ErrLocalServerTimeout(Unwrap(srv_timeout))))
            /\ UNCHANGED <<now, accepted>>
       ELSE \/ \* Ok((stream, _)): the clock is read again (92-97)
               /\ accepted < MaxConns
               /\ accepted' = accepted + 1
               /\ \E elapsed \in {0, 1}, read_timeout_ok \in BOOLEAN :
                    /\ now' = now + elapsed
                    /\ IF now' >= deadline
                       THEN Return(Err(ErrLocalServerTimeout(Unwrap(srv_timeout))))
                       ELSE IF read_timeout_ok
                       THEN /\ srv_pc' = "handle"
                            /\ UNCHANGED <<srv_result, listener>>
                       ELSE Return(Err(ErrIo("set_read_timeout")))
            \/ \* WouldBlock: sleep one poll interval (102-104)
               /\ now' = now + 1
               /\ UNCHANGED <<srv_pc, srv_result, listener, accepted>>
            \/ \* any other accept error (105)
               /\ Return(Err(ErrIo("accept")))
               /\ UNCHANGED <<now, accepted>>
    /\ UNCHANGED <<mode, conn, srv_timeout, deadline, log>>
    /\ UNCHANGED <<coop_vars, flow_vars, type_vars>>

\* listen_with_timeout: handle_request under the read timeout (server.rs:97-100);
\* the read returns before the deadline, or times out at it
handle_timed ==
    /\ ListenRuns
    /\ srv_pc = "handle"
    /\ srv_timeout # None
    /\ \E h \in HandledTimed :
         /\ IF h.class = "timeout" THEN now' = deadline
            ELSE \E wait \in {0, 1} : now + wait < deadline /\ now' = now + wait
         /\ log' = Append(log, h)
         /\ AfterRequest(h.out)
    /\ UNCHANGED <<mode, conn, srv_timeout, deadline, accepted>>
    /\ UNCHANGED <<coop_vars, flow_vars, type_vars>>

\* no client connection is singled out
NoConn == [read |-> "none"]

\* handle_request on the accepted stream of the client whose connection is `conn`
\* (server.rs:70-73, 97-100); under a timeout the read returns before the
\* deadline, or times out at it
handle_conn ==
    /\ ListenRuns
    /\ conn # NoConn
    /\ srv_pc = "handle"
    /\ IF srv_timeout = None THEN UNCHANGED now
       ELSE IF conn.read = "timeout" THEN now' = deadline
       ELSE \E wait \in {0, 1} : now + wait < deadline /\ now' = now + wait
    /\ log' = Append(log, [class |-> ConnClass(conn), out |-> handle_request(conn)])
    /\ AfterRequest(handle_request(conn))
    /\ UNCHANGED <<mode, conn, srv_timeout, deadline, accepted>>
    /\ UNCHANGED <<coop_vars, flow_vars, type_vars>>

InitServer ==
    /\ mode = "listen_once"
    /\ srv_timeout \in Timeouts
    /\ srv_pc = "idle"
    /\ listener = "none"
    /\ now = 0
    /\ deadline = 0
    /\ accepted = 0
    /\ log = <<>>
    /\ srv_result = None

(* ------------------- local_server/http.rs: cooperative mode ----------- *)
\* what a routed request makes its handler do: the status it answers, and the
\* ResponseResult it passes to send_response (None: send_response is not called)
\* callback_handler with the MissingAuthorizationCode arm folded into the
\* catch-all arm: a missing code is sent to the waiter as an error
callback_handler_missing_code_fatal(req) ==
    LET built == build_callback_url(req.query, req.build_ok)
    IN IF ~built.ok THEN [status |-> "500", send |-> Some(Err(built.err))]
       ELSE LET parsed == from_url(built.val, req.parse_ok)
            IN IF parsed.ok THEN [status |-> "200", send |-> Some(Ok(parsed.val))]
               ELSE [status |-> "500", send |-> Some(Err(parsed.err))]

callback_handler(req) ==
    LET built == build_callback_url(req.query, req.build_ok)
    IN IF ~built.ok THEN [status |-> "500", send |-> Some(Err(built.err))]
       ELSE LET parsed == from_url(built.val, req.parse_ok)
            IN IF parsed.ok THEN [status |-> "200", send |-> Some(Ok(parsed.val))]
               ELSE IF parsed.err = ErrMissingAuthorizationCode
               THEN [status |-> "400", send |-> None]
               ELSE [status |-> "500", send |-> Some(Err(parsed.err))]

fallback_handler(req) == [status |-> "404", send |-> None]

\* the router in front of the handlers: GET on the configured path goes to
\* callback_handler, another method is answered 405, another path falls back
route(req) ==
    IF req.method # "GET" THEN [status |-> "405", send |-> None]
    ELSE IF req.path # CallbackPath THEN fallback_handler(req)
    ELSE callback_handler(req)

Routed == { [class |-> ReqClass(r), out |-> route(r)] : r \in Requests }

HandlerIds == 1..NumHandlers
IdleHandler == [pc |-> "idle", class |-> "-", status |-> "-", msg |-> None, wrote |-> FALSE]

\* send_response reading the sender without take(): the slot stays full
SlotAfterTake_keeps_sender(s) == s

\* send_response's critical section (http.rs:30-32): guard.take(), then send
SlotAfterTake(s) == FALSE

\* axum calls the handler the router picks for one request; a handler that does
\* not call send_response answers at once
call_handler(h) ==
    /\ mode = "coop"
    /\ rx # "closed"
    /\ handlers[h].pc = "idle"
    /\ \A g \in HandlerIds : g < h => handlers[g].pc # "idle"
    /\ \E r \in Routed :
         handlers' = [handlers EXCEPT ![h] =
            IF r.out.send = None
            THEN [pc |-> "done", class |-> r.class, status |-> r.out.status,
                  msg |-> None, wrote |-> FALSE]
            ELSE [pc |-> "send", class |-> r.class, status |-> r.out.status,
                  msg |-> r.out.send, wrote |-> FALSE]]
    /\ UNCHANGED <<srv_vars, flow_vars, type_vars, slot, mutex, chan, rx, sent, first, waiter>>

\* send_response: response_tx.lock() (http.rs:29)
lock(h) ==
    /\ handlers[h].pc = "send"
    /\ mutex = 0
    /\ mutex' = h
    /\ handlers' = [handlers EXCEPT ![h].pc = "locked"]
    /\ UNCHANGED <<srv_vars, flow_vars, type_vars, slot, chan, rx, sent, first, waiter>>

\* a handler answering 500 when its result was not the one delivered
take_and_send_reports_discard(h) ==
    /\ handlers[h].pc = "locked"
    /\ mutex = h
    /\ mutex' = 0
    /\ first' = IF first = None THEN handlers[h].msg ELSE first
    /\ IF slot
       THEN /\ slot' = SlotAfterTake(slot)
            /\ sent' = Append(sent, Unwrap(handlers[h].msg))
            /\ chan' = IF rx = "open" THEN handlers[h].msg ELSE chan
       ELSE UNCHANGED <<slot, sent, chan>>
    /\ handlers' = [handlers EXCEPT ![h].pc = "done", ![h].msg = None, ![h].wrote = slot,
                                    ![h].status = IF slot /\ rx = "open" THEN @ ELSE "500"]
    /\ UNCHANGED <<srv_vars, flow_vars, type_vars, rx, waiter>>

\* send_response: take the sender and send, drop the guard (http.rs:30-34);
\* the handler then returns its status (http.rs:52, 58, 64)
take_and_send(h) ==
    /\ handlers[h].pc = "locked"
    /\ mutex = h
    /\ mutex' = 0
    /\ first' = IF first = None THEN handlers[h].msg ELSE first
    /\ IF slot
       THEN /\ slot' = SlotAfterTake(slot)
            /\ sent' = Append(sent, Unwrap(handlers[h].msg))
            /\ chan' = IF rx = "open" THEN handlers[h].msg ELSE chan
       ELSE UNCHANGED <<slot, sent, chan>>
    /\ handlers' = [handlers EXCEPT ![h].pc = "done", ![h].msg = None, ![h].wrote = slot]
    /\ UNCHANGED <<srv_vars, flow_vars, type_vars, rx, waiter>>

\* time passes while wait_for_response waits under a timeout
tick ==
    /\ mode = "coop"
    /\ srv_timeout # None
    /\ now < deadline
    /\ now' = now + 1
    /\ UNCHANGED <<mode, conn, srv_timeout, srv_pc, listener, deadline, accepted, log, srv_result>>
    /\ UNCHANGED <<coop_vars, flow_vars, type_vars>>

\* wait_for_response: the receiver resolves with the value sent (http.rs:78-90)
wait_received ==
    /\ mode = "coop"
    /\ waiter = None
    /\ chan # None
    /\ waiter' = Some(Unwrap(chan))
    /\ rx' = "dropped"
    /\ UNCHANGED <<srv_vars, flow_vars, type_vars, slot, mutex, chan, handlers, sent, first>>

\* wait_for_response returning the timeout whatever the receiver holds
wait_timed_out_unraced ==
    /\ mode = "coop"
    /\ waiter = None
    /\ srv_timeout # None
    /\ now >= deadline
    /\ waiter' = Some(Err(ErrLocalServerTimeout(Unwrap(srv_timeout))))
    /\ rx' = "dropped"
    /\ UNCHANGED <<srv_vars, flow_vars, type_vars, slot, mutex, chan, handlers, sent, first>>

\* wait_for_response: the timer elapses with nothing received (http.rs:78-80);
\* tokio::time::timeout polls the receiver before the timer
wait_timed_out ==
    /\ mode = "coop"
    /\ waiter = None
    /\ srv_timeout # None
    /\ now >= deadline
    /\ chan = None
    /\ rx = "open"
    /\ waiter' = Some(Err(ErrLocalServerTimeout(Unwrap(srv_timeout))))
    /\ rx' = "dropped"
    /\ UNCHANGED <<srv_vars, flow_vars, type_vars, slot, mutex, chan, handlers, sent, first>>

\* the last clone of the LocalServerState goes away with the sender still in its
\* slot (http.rs:18-25): no handler invocation holds a clone, none is made after
drop_sender ==
    /\ mode = "coop"
    /\ waiter = None
    /\ rx = "open"
    /\ slot
    /\ \A h \in HandlerIds : handlers[h].pc \in {"idle", "done"}
    /\ slot' = FALSE
    /\ rx' = "closed"
    /\ UNCHANGED <<srv_vars, flow_vars, type_vars, mutex, chan, handlers, sent, first, waiter>>

\* wait_for_response: the receiver resolves with RecvError (http.rs:81-84, 86-89)
wait_closed ==
    /\ mode = "coop"
    /\ waiter = None
    /\ rx = "closed"
    /\ waiter' = Some(Err(ErrInvalidResponseBody("local server response channel closed", "")))
    /\ rx' = "dropped"
    /\ UNCHANGED <<srv_vars, flow_vars, type_vars, slot, mutex, chan, handlers, sent, first>>

(* ------------------------------ client.rs ----------------------------- *)
\* the built-in providers (providers/anthropic.rs, providers/openai.rs)
AnthropicProvider ==
    [id |-> "anthropic",
     authorize_query |-> <<>>,
     default_scope |-> "org:create_api_key user:profile user:inference",
     authorize_params |-> << <<"code", "true">> >>,
     token_params |-> <<>>,
     token_request_format |-> "Json",
     token_headers |-> <<>>]

OpenAIProvider ==
    [id |-> "openai",
     authorize_query |-> <<>>,
     default_scope |-> "openid profile email offline_access",
     authorize_params |-> << <<"id_token_add_organizations", "true">>,
                             <<"codex_cli_simplified_flow", "true">>,
                             <<"originator", "codex_cli_rs">> >>,
     token_params |-> <<>>,
     token_request_format |-> "Form",
     token_headers |-> << <<"Accept", "application/json">> >>]

\* an OAuthProvider with only the required methods (provider.rs:13-27 defaults)
DefaultProvider ==
    [id |-> "default",
     authorize_query |-> <<>>,
     default_scope |-> "default",
     authorize_params |-> <<>>,
     token_params |-> <<>>,
     token_request_format |-> "Json",
     token_headers |-> <<>>]

\* an OAuthProvider overriding every optional method: its authorize_url has a
\* query of its own, its params name keys the client also sets, one key twice
CustomProvider ==
    [id |-> "custom",
     authorize_query |-> << <<"tenant", "t1">> >>,
     default_scope |-> "custom:default",
     authorize_params |-> << <<"code", "true">>, <<"scope", "provider-param">>,
                             <<"prompt", "none">>, <<"code", "yes">> >>,
     token_params |-> << <<"grant_type", "custom_grant">>, <<"audience", "api">>,
                         <<"client_id", "provider-client">> >>,
     token_request_format |-> "Form",
     token_headers |-> << <<"Accept", "application/json">>, <<"X-Client", "cli">> >>]

\* OAuthProviders whose token_headers apply_headers rejects
BadHeaderNameProvider ==
    [DefaultProvider EXCEPT !.id = "bad-header-name",
                            !.token_headers = << <<"Accept", "application/json">>,
                                                 <<"X Client", "cli">> >>]
BadHeaderValueProvider ==
    [DefaultProvider EXCEPT !.id = "bad-header-value",
                            !.token_headers = << <<"X-Client", "line\nbreak">> >>]

BuiltinProviders == { AnthropicProvider, OpenAIProvider }
Providers ==
    BuiltinProviders \cup
    { DefaultProvider, CustomProvider, BadHeaderNameProvider, BadHeaderValueProvider }

ClientId == "client-id"
RedirectUri == "http://localhost:8765/callback"
Secrets == { None, Some("secret") }
LocalServerConfigs == { None } \cup { Some([timeout |-> t]) : t \in Timeouts }
\* OAuthClientConfig::new with with_client_secret, with_timeout and
\* with_local_server_config
Configs ==
    [client_id : {ClientId}, client_secret : Secrets, redirect_uri : {RedirectUri},
     scope : { None }, authorize_params : { <<>> }, token_params : { <<>> },
     timeout : { None, Some(MaxTimeout) }, local_server : LocalServerConfigs]
\* what with_authorize_param and with_token_param calls leave in the config:
\* keys of the provider's params, protocol keys, one key twice
AuthorizeParamSamples ==
    { <<>>,
      << <<"code", "false">> >>,
      << <<"state", <<"e">> >>, <<"response_type", "token">> >>,
      << <<"prompt", "login">>, <<"prompt", "consent">> >>,
      << <<"scope", "config-param">>, <<"client_id", "other-client">> >> }
TokenParamSamples ==
    { <<>>,
      << <<"grant_type", "config_grant">> >>,
      << <<"audience", "one">>, <<"audience", "two">> >>,
      << <<"client_id", "config-client">>, <<"resource", "r">> >> }
\* OAuthClientConfig::new with with_client_secret, with_scope,
\* with_authorize_param and with_token_param
ClientConfigs ==
    [client_id : {ClientId}, client_secret : Secrets, redirect_uri : {RedirectUri},
     scope : { None, Some("config:scope") },
     authorize_params : AuthorizeParamSamples, token_params : TokenParamSamples,
     timeout : { None }, local_server : { None }]
\* run_local_flow is explored for public clients (no secret), and for one whose
\* with_token_param calls name grant fields; exchange_code for all
FlowConfigs ==
    { c \in Configs : c.client_secret = None }
    \cup { [client_id |-> ClientId, client_secret |-> None, redirect_uri |-> RedirectUri,
            scope |-> None, authorize_params |-> <<>>,
            token_params |-> << <<"code_verifier", <<"x">> >>,
                                <<"redirect_uri", "http://localhost:9999/other">> >>,
            timeout |-> None, local_server |-> None] }

Put(m, k, v) == [x \in DOMAIN m \cup {k} |-> IF x = k THEN v ELSE m[x]]

\* HashMap::insert for each pair of a Vec, in order
RECURSIVE InsertAll(_, _)
InsertAll(m, pairs) ==
    IF pairs = <<>> THEN m
    ELSE InsertAll(Put(m, Head(pairs)[1], Head(pairs)[2]), Tail(pairs))

\* the (key, value) pairs of a query string as a bag: how often each occurs
PairsBag(pairs) ==
    [p \in { pairs[i] : i \in DOMAIN pairs } |->
        Cardinality({ i \in DOMAIN pairs : pairs[i] = p })]
\* url.query_pairs_mut().append_pair for each entry of the map, in the map's
\* iteration order, after the query the URL already has
AppendPairs(query, m) == PairsBag(query) (+) [p \in { <<k, m[k]>> : k \in DOMAIN m } |-> 1]

\* PkcePair::from_verifier: the challenge is the base64url SHA-256 of the verifier
S256(code_verifier) == [sha256_of |-> code_verifier]

\* authorization_url_with_state with the fixed fields inserted first, the
\* provider's and the config's params after them
authorization_url_with_state_fixed_first(prov, config, state, code_verifier) ==
    LET state_value == IF state = None THEN code_verifier ELSE Unwrap(state)
        scope == IF config.scope # None THEN Unwrap(config.scope) ELSE prov.default_scope
        fixed == InsertAll(<<>>, << <<"response_type", "code">>,
                                    <<"client_id", config.client_id>>,
                                    <<"redirect_uri", config.redirect_uri>>,
                                    <<"scope", scope>>,
                                    <<"code_challenge", S256(code_verifier)>>,
                                    <<"code_challenge_method", "S256">>,
                                    <<"state", state_value>> >>)
        params == InsertAll(InsertAll(fixed, prov.authorize_params), config.authorize_params)
    IN [query |-> AppendPairs(prov.authorize_query, params),
        code_verifier |-> code_verifier,
        code_challenge |-> S256(code_verifier),
        state |-> state_value,
        scope |-> scope]

\* authorization_url_with_state with the provider's params inserted after the
\* config's
authorization_url_with_state_provider_last(prov, config, state, code_verifier) ==
    LET state_value == IF state = None THEN code_verifier ELSE Unwrap(state)
        scope == IF config.scope # None THEN Unwrap(config.scope) ELSE prov.default_scope
        extras == InsertAll(InsertAll(<<>>, config.authorize_params), prov.authorize_params)
        params == InsertAll(extras, << <<"response_type", "code">>,
                                       <<"client_id", config.client_id>>,
                                       <<"redirect_uri", config.redirect_uri>>,
                                       <<"scope", scope>>,
                                       <<"code_challenge", S256(code_verifier)>>,
                                       <<"code_challenge_method", "S256">>,
                                       <<"state", state_value>> >>)
    IN [query |-> AppendPairs(prov.authorize_query, params),
        code_verifier |-> code_verifier,
        code_challenge |-> S256(code_verifier),
        state |-> state_value,
        scope |-> scope]

\* authorization_url_with_state once PkcePair::generate returned code_verifier:
\* the state defaults to the verifier, the scope to the provider's; the params
\* map takes the provider's params, then the config's, then the fixed fields
authorization_url_with_state(prov, config, state, code_verifier) ==
    LET state_value == IF state = None THEN code_verifier ELSE Unwrap(state)
        scope == IF config.scope # None THEN Unwrap(config.scope) ELSE prov.default_scope
        extras == InsertAll(InsertAll(<<>>, prov.authorize_params), config.authorize_params)
        params == InsertAll(extras, << <<"response_type", "code">>,
                                       <<"client_id", config.client_id>>,
                                       <<"redirect_uri", config.redirect_uri>>,
                                       <<"scope", scope>>,
                                       <<"code_challenge", S256(code_verifier)>>,
                                       <<"code_challenge_method", "S256">>,
                                       <<"state", state_value>> >>)
    IN [query |-> AppendPairs(prov.authorize_query, params),
        code_verifier |-> code_verifier,
        code_challenge |-> S256(code_verifier),
        state |-> state_value,
        scope |-> scope]

\* exchange_code without the state comparison
exchange_code_unchecked(config, response, code_verifier, expected_state) ==
    LET returned_state == response.state
        base == [k \in {"grant_type", "code", "client_id", "redirect_uri", "code_verifier"} |->
                    CASE k = "grant_type" -> "authorization_code"
                      [] k = "code" -> response.code
                      [] k = "client_id" -> config.client_id
                      [] k = "redirect_uri" -> config.redirect_uri
                      [] k = "code_verifier" -> code_verifier]
        with_secret == IF config.client_secret # None
                       THEN Put(base, "client_secret", Unwrap(config.client_secret))
                       ELSE base
        state_value == IF returned_state # None THEN returned_state ELSE expected_state
    IN Ok(IF state_value # None THEN Put(with_secret, "state", Unwrap(state_value))
          ELSE with_secret)

\* exchange_code comparing Option with Option: an absent response state differs
\* from the expected one
exchange_code_absent_differs(config, response, code_verifier, expected_state) ==
    LET returned_state == response.state
        base == [k \in {"grant_type", "code", "client_id", "redirect_uri", "code_verifier"} |->
                    CASE k = "grant_type" -> "authorization_code"
                      [] k = "code" -> response.code
                      [] k = "client_id" -> config.client_id
                      [] k = "redirect_uri" -> config.redirect_uri
                      [] k = "code_verifier" -> code_verifier]
        with_secret == IF config.client_secret # None
                       THEN Put(base, "client_secret", Unwrap(config.client_secret))
                       ELSE base
        state_value == IF returned_state # None THEN returned_state ELSE expected_state
    IN IF expected_state # None /\ returned_state # expected_state
       THEN Err(ErrStateMismatch(Unwrap(expected_state),
                                 IF returned_state = None THEN <<>> ELSE Unwrap(returned_state)))
       ELSE Ok(IF state_value # None THEN Put(with_secret, "state", Unwrap(state_value))
               ELSE with_secret)

\* exchange_code up to its call of send_token_request: the state check, then
\* the payload
exchange_code(config, response, code_verifier, expected_state) ==
    LET returned_state == response.state
        base == [k \in {"grant_type", "code", "client_id", "redirect_uri", "code_verifier"} |->
                    CASE k = "grant_type" -> "authorization_code"
                      [] k = "code" -> response.code
                      [] k = "client_id" -> config.client_id
                      [] k = "redirect_uri" -> config.redirect_uri
                      [] k = "code_verifier" -> code_verifier]
        with_secret == IF config.client_secret # None
                       THEN Put(base, "client_secret", Unwrap(config.client_secret))
                       ELSE base
        state_value == IF returned_state # None THEN returned_state ELSE expected_state
    IN IF /\ expected_state # None
          /\ returned_state # None
          /\ Unwrap(expected_state) # Unwrap(returned_state)
       THEN Err(ErrStateMismatch(Unwrap(expected_state), Unwrap(returned_state)))
       ELSE Ok(IF state_value # None THEN Put(with_secret, "state", Unwrap(state_value))
               ELSE with_secret)

\* refresh_token sending the redirect_uri as exchange_code does
refresh_token_with_redirect_uri(config, token) ==
    LET base == [k \in {"grant_type", "refresh_token", "client_id", "redirect_uri"} |->
                    CASE k = "grant_type" -> "refresh_token"
                      [] k = "refresh_token" -> token
                      [] k = "client_id" -> config.client_id
                      [] k = "redirect_uri" -> config.redirect_uri]
    IN IF config.client_secret # None
       THEN Put(base, "client_secret", Unwrap(config.client_secret))
       ELSE base

\* refresh_token up to its call of send_token_request: the payload
refresh_token(config, token) ==
    LET base == [k \in {"grant_type", "refresh_token", "client_id"} |->
                    CASE k = "grant_type" -> "refresh_token"
                      [] k = "refresh_token" -> token
                      [] k = "client_id" -> config.client_id]
    IN IF config.client_secret # None
       THEN Put(base, "client_secret", Unwrap(config.client_secret))
       ELSE base

\* HeaderName::from_bytes and HeaderValue::from_str on the sample headers: a
\* name is a token (no space), a value has no line break; HeaderName's
\* to_string is the lower-case name
HeaderNameOk(n) == n # "X Client"
HeaderValueOk(v) == v # "line\nbreak"
HeaderNameString(n) ==
    CASE n = "Accept" -> "accept"
      [] n = "X-Client" -> "x-client"
      [] OTHER -> n

\* apply_headers: the first header whose name or value is rejected ends it
apply_headers(headers) ==
    LET bad == { i \in DOMAIN headers :
                    ~HeaderNameOk(headers[i][1]) \/ ~HeaderValueOk(headers[i][2]) }
    IN IF bad = {} THEN Ok(headers)
       ELSE LET i == CHOOSE j \in bad : \A k \in bad : j <= k
            IN Err(ErrInvalidHeader(IF HeaderNameOk(headers[i][1])
                                    THEN HeaderNameString(headers[i][1])
                                    ELSE headers[i][1],
                                    headers[i][2]))

\* builder.json(&payload) / builder.form(&payload)
EncodeBody(format, payload) ==
    IF format = "Json"
    THEN [content_type |-> "application/json", fields |-> payload]
    ELSE [content_type |-> "application/x-www-form-urlencoded", fields |-> payload]

\* send_token_request with the config's token_params inserted before the
\* provider's
send_token_request_config_first(prov, config, payload) ==
    LET with_config == InsertAll(payload, config.token_params)
        final == InsertAll(with_config, prov.token_params)
        headers == apply_headers(prov.token_headers)
    IN IF headers.ok
       THEN Ok([payload |-> final, headers |-> headers.val,
                body |-> EncodeBody(prov.token_request_format, final)])
       ELSE Err(headers.err)

\* send_token_request up to the POST (client.rs:247-261): the overlays, the
\* headers, the encoded body
send_token_request(prov, config, payload) ==
    LET with_provider == InsertAll(payload, prov.token_params)
        final == InsertAll(with_provider, config.token_params)
        headers == apply_headers(prov.token_headers)
    IN IF headers.ok
       THEN Ok([payload |-> final, headers |-> headers.val,
                body |-> EncodeBody(prov.token_request_format, final)])
       ELSE Err(headers.err)

\* what can come back from the POST: send() fails, or a response arrives with
\* a status and a body that text() reads or fails to read
Statuses == {200, 201, 400, 500}
Bodies ==
    { [text |-> "token", json |-> TRUE, access_token |-> Some("tok")],
      [text |-> "no access_token", json |-> TRUE, access_token |-> None],
      [text |-> "not json", json |-> FALSE, access_token |-> None] }
TokenOutcomes ==
    { [send_ok |-> FALSE] } \cup
    { [send_ok |-> TRUE, status |-> c, text_ok |-> FALSE] : c \in Statuses } \cup
    { [send_ok |-> TRUE, status |-> c, text_ok |-> TRUE, body |-> b] :
        c \in Statuses, b \in Bodies }

\* StatusCode::is_success
is_success(code) == code \in 200..299
\* serde_json::from_str::<TokenResponse>: access_token is the one required field
from_str(b) ==
    IF ~b.json THEN Err("expected value")
    ELSE IF b.access_token = None THEN Err("missing field access_token")
    ELSE Ok([access_token |-> Unwrap(b.access_token)])

\* send_token_request decoding the body before it looks at the status
send_token_request_result_decode_first(outcome) ==
    IF ~outcome.send_ok THEN Err(ErrHttp)
    ELSE IF ~outcome.text_ok THEN Err(ErrHttp)
    ELSE LET token == from_str(outcome.body)
         IN IF ~token.ok THEN Err(ErrInvalidResponseBody(token.err, outcome.body.text))
            ELSE IF ~is_success(outcome.status)
            THEN Err(ErrHttpStatus(outcome.status, outcome.body.text))
            ELSE Ok(token.val)

\* what the token endpoint's answer makes send_token_request return
\* (client.rs:258-278)
send_token_request_result(outcome) ==
    IF ~outcome.send_ok THEN Err(ErrHttp)
    ELSE IF ~outcome.text_ok THEN Err(ErrHttp)
    ELSE IF ~is_success(outcome.status)
    THEN Err(ErrHttpStatus(outcome.status, outcome.body.text))
    ELSE LET token == from_str(outcome.body)
         IN IF token.ok THEN Ok(token.val)
            ELSE Err(ErrInvalidResponseBody(token.err, outcome.body.text))

\* run_local_flow with on_authorize(&auth)? moved up, before the server is built
NextFlowPc_present_first(pc) ==
    CASE pc = "start" -> "authorize"
      [] pc = "authorize" -> "server"
      [] pc = "server" -> "bind"
      [] pc = "bind" -> "spawn"
      [] pc = "spawn" -> "await"
      [] pc = "await" -> "exchange"
      [] pc = "exchange" -> "sent"
      [] OTHER -> "done"

\* the order of run_local_flow's steps (client.rs:172-191)
NextFlowPc(pc) ==
    CASE pc = "start" -> "server"
      [] pc = "server" -> "bind"
      [] pc = "bind" -> "spawn"
      [] pc = "spawn" -> "authorize"
      [] pc = "authorize" -> "await"
      [] pc = "await" -> "exchange"
      [] pc = "exchange" -> "sent"
      [] OTHER -> "done"

FlowReturn(res) ==
    /\ flow_pc' = "done"
    /\ flow_result' = Some(res)

\* let auth = self.authorization_url()? (client.rs:172-174)
flow_authorization_url ==
    /\ mode = "run_local_flow"
    /\ flow_pc = "start"
    /\ steps' = Append(steps, "authorization_url")
    /\ \/ \E v \in Verifiers :
            /\ auth' = Some(authorization_url_with_state(provider, cfg, None, v))
            /\ flow_pc' = NextFlowPc(flow_pc)
            /\ UNCHANGED flow_result
       \/ \E e \in {ErrOsRng, ErrUrl} :
            /\ FlowReturn(Err(e))
            /\ UNCHANGED auth
    /\ UNCHANGED <<srv_vars, coop_vars, type_vars, cfg, provider, task, call, token_requests, http_response>>

\* LocalServer::from_config / LocalServer::new (client.rs:175-178, server.rs:20-38);
\* RedirectTarget::parse accepts the redirect URI or fails (target.rs:14-36)
flow_server ==
    /\ mode = "run_local_flow"
    /\ flow_pc = "server"
    /\ steps' = Append(steps, "server_new")
    /\ \E parsed \in {Ok("target"), Err(ErrUrl), Err(ErrInvalidRedirectUri)} :
         IF parsed.ok
         THEN /\ srv_pc' = "idle"
              /\ srv_timeout' = IF cfg.local_server # None
                                THEN Unwrap(cfg.local_server).timeout
                                ELSE None
              /\ flow_pc' = NextFlowPc(flow_pc)
              /\ UNCHANGED flow_result
         ELSE /\ FlowReturn(Err(parsed.err))
              /\ UNCHANGED <<srv_pc, srv_timeout>>
    /\ UNCHANGED <<mode, conn, listener, now, deadline, accepted, log, srv_result>>
    /\ UNCHANGED <<coop_vars, type_vars, cfg, provider, auth, task, call, token_requests, http_response>>

\* let listener = server.bind()? (client.rs:179)
flow_bind ==
    /\ mode = "run_local_flow"
    /\ flow_pc = "bind"
    /\ steps' = Append(steps, "bind")
    /\ \E ok \in BOOLEAN :
         IF ok
         THEN /\ srv_pc' = "bound"
              /\ listener' = "bound"
              /\ flow_pc' = NextFlowPc(flow_pc)
              /\ UNCHANGED flow_result
         ELSE /\ FlowReturn(Err(ErrIo("bind")))
              /\ UNCHANGED <<srv_pc, listener>>
    /\ UNCHANGED <<mode, conn, srv_timeout, now, deadline, accepted, log, srv_result>>
    /\ UNCHANGED <<coop_vars, type_vars, cfg, provider, auth, task, call, token_requests, http_response>>

\* spawn_blocking(move || server.listen_with(listener)) (client.rs:181)
flow_spawn ==
    /\ mode = "run_local_flow"
    /\ flow_pc = "spawn"
    /\ steps' = Append(steps, "spawn_listen")
    /\ task' = "spawned"
    /\ flow_pc' = NextFlowPc(flow_pc)
    /\ UNCHANGED <<srv_vars, coop_vars, type_vars, cfg, provider, auth, call, token_requests, flow_result, http_response>>

\* on_authorize(&auth)? (client.rs:183): the JoinHandle is dropped on an error,
\* which does not stop a spawn_blocking task
flow_on_authorize ==
    /\ mode = "run_local_flow"
    /\ flow_pc = "authorize"
    /\ steps' = Append(steps, "on_authorize")
    /\ \E ok \in BOOLEAN :
         IF ok THEN flow_pc' = NextFlowPc(flow_pc) /\ UNCHANGED flow_result
         ELSE FlowReturn(Err(ErrCallback))
    /\ UNCHANGED <<srv_vars, coop_vars, type_vars, cfg, provider, auth, task, call, token_requests, http_response>>

\* handle.await ... ?? (client.rs:185-188): the listen task has returned
flow_await ==
    /\ mode = "run_local_flow"
    /\ flow_pc = "await"
    /\ task = "spawned"
    /\ srv_pc = "done"
    /\ steps' = Append(steps, "await_listen")
    /\ IF Unwrap(srv_result).ok
       THEN flow_pc' = NextFlowPc(flow_pc) /\ UNCHANGED flow_result
       ELSE FlowReturn(Err(Unwrap(srv_result).err))
    /\ UNCHANGED <<srv_vars, coop_vars, type_vars, cfg, provider, auth, task, call, token_requests, http_response>>

\* send_token_request(payload) up to the POST: rejected headers return, else
\* the request goes out
SendTokenRequest(payload, sent_pc) ==
    LET request == send_token_request(provider, cfg, payload)
    IN IF request.ok
       THEN /\ token_requests' = Append(token_requests, request.val)
            /\ flow_pc' = sent_pc
            /\ UNCHANGED flow_result
       ELSE /\ FlowReturn(Err(request.err))
            /\ UNCHANGED token_requests

\* exchange_code building and posting the request before it compares the states
ExchangeCode_sends_first(args, sent_pc) ==
    LET r == exchange_code(cfg, args.response, args.code_verifier, args.expected_state)
        built == exchange_code_unchecked(cfg, args.response, args.code_verifier,
                                         args.expected_state)
        request == send_token_request(provider, cfg, built.val)
    IN /\ call' = Some(args)
       /\ IF r.ok
          THEN SendTokenRequest(r.val, sent_pc)
          ELSE /\ FlowReturn(Err(r.err))
               /\ token_requests' = IF request.ok THEN Append(token_requests, request.val)
                                     ELSE token_requests

\* exchange_code called with `args`: a mismatch returns, else the payload goes
\* to send_token_request
ExchangeCode(args, sent_pc) ==
    LET r == exchange_code(cfg, args.response, args.code_verifier, args.expected_state)
    IN /\ call' = Some(args)
       /\ IF r.ok
          THEN SendTokenRequest(r.val, sent_pc)
          ELSE /\ FlowReturn(Err(r.err))
               /\ UNCHANGED token_requests

\* run_local_flow exchanging the code with a verifier generated anew
flow_exchange_code_new_verifier ==
    /\ mode = "run_local_flow"
    /\ flow_pc = "exchange"
    /\ steps' = Append(steps, "exchange_code")
    /\ \E v \in Verifiers :
         ExchangeCode([response |-> Unwrap(srv_result).val,
                       code_verifier |-> v,
                       expected_state |-> Some(Unwrap(auth).state)],
                      NextFlowPc(flow_pc))
    /\ UNCHANGED <<srv_vars, coop_vars, type_vars, cfg, provider, auth, task, http_response>>

\* self.exchange_code(response, &code_verifier, Some(&expected_state)) (client.rs:190)
flow_exchange_code ==
    /\ mode = "run_local_flow"
    /\ flow_pc = "exchange"
    /\ steps' = Append(steps, "exchange_code")
    /\ ExchangeCode([response |-> Unwrap(srv_result).val,
                     code_verifier |-> Unwrap(auth).code_verifier,
                     expected_state |-> Some(Unwrap(auth).state)],
                    NextFlowPc(flow_pc))
    /\ UNCHANGED <<srv_vars, coop_vars, type_vars, cfg, provider, auth, task, http_response>>

\* a caller that captured the redirect itself calls exchange_code (client.rs:194)
Responses == [code : Vals, state : { None } \cup { Some(v) : v \in Vals }]
call_exchange_code ==
    /\ mode = "exchange_code"
    /\ flow_pc = "start"
    /\ \E response \in Responses, v \in Verifiers,
          expected \in { None } \cup { Some(x) : x \in Vals } :
         ExchangeCode([response |-> response, code_verifier |-> v,
                       expected_state |-> expected], "sent")
    /\ UNCHANGED <<srv_vars, coop_vars, type_vars, cfg, provider, auth, task, steps, http_response>>

\* a caller holding a refresh token calls refresh_token (client.rs:230)
RefreshTokens == { <<"a">>, <<"b">> }
call_refresh_token ==
    /\ mode = "refresh_token"
    /\ flow_pc = "start"
    /\ \E token \in RefreshTokens :
         SendTokenRequest(refresh_token(cfg, token), "sent")
    /\ UNCHANGED <<srv_vars, coop_vars, type_vars, cfg, provider, auth, task, steps, call, http_response>>

\* a caller asks for the authorization URL, with or without a state of its own
\* (client.rs:119-165); PkcePair::generate or Url::parse can fail
call_authorization_url ==
    /\ mode = "authorization_url"
    /\ flow_pc = "start"
    /\ \E state \in { None } \cup { Some(x) : x \in Vals } :
         /\ call' = Some([state |-> state])
         /\ \/ \E v \in Verifiers :
                 /\ auth' = Some(authorization_url_with_state(provider, cfg, state, v))
                 /\ FlowReturn(Ok("AuthorizationRequest"))
            \/ \E e \in {ErrOsRng, ErrUrl} :
                 /\ FlowReturn(Err(e))
                 /\ UNCHANGED auth
    /\ UNCHANGED <<srv_vars, coop_vars, type_vars, cfg, provider, task, steps, token_requests, http_response>>

\* send_token_request with a retry: a failed send posts the request again
token_response_retries ==
    /\ flow_pc = "sent"
    /\ \E o \in TokenOutcomes :
         /\ http_response' = Some(o)
         /\ IF ~o.send_ok /\ Len(token_requests) < 2
            THEN /\ token_requests' = Append(token_requests, token_requests[1])
                 /\ UNCHANGED <<flow_pc, flow_result>>
            ELSE /\ FlowReturn(send_token_request_result(o))
                 /\ UNCHANGED token_requests
    /\ UNCHANGED <<srv_vars, coop_vars, type_vars, cfg, provider, auth, task, steps, call>>

\* send_token_request: the endpoint's answer comes back (client.rs:258-278)
token_response ==
    /\ flow_pc = "sent"
    /\ \E o \in TokenOutcomes :
         /\ http_response' = Some(o)
         /\ FlowReturn(send_token_request_result(o))
    /\ UNCHANGED <<srv_vars, coop_vars, type_vars, cfg, provider, auth, task, steps, call, token_requests>>

InitFlowIdle ==
    /\ cfg = [client_id |-> ClientId, client_secret |-> None, redirect_uri |-> RedirectUri,
              scope |-> None, authorize_params |-> <<>>, token_params |-> <<>>,
              timeout |-> None, local_server |-> None]
    /\ flow_pc = "none"
    /\ auth = None
    /\ steps = <<>>
    /\ task = "none"
    /\ call = None
    /\ token_requests = <<>>
    /\ flow_result = None
    /\ provider = AnthropicProvider
    /\ http_response = None

\* an OAuthClient before run_local_flow or exchange_code is called
InitFlow ==
    /\ mode \in {"run_local_flow", "exchange_code", "refresh_token"}
    /\ cfg \in (IF mode = "run_local_flow" THEN FlowConfigs ELSE Configs)
    /\ flow_pc = "start"
    /\ auth = None
    /\ steps = <<>>
    /\ task = "none"
    /\ call = None
    /\ token_requests = <<>>
    /\ flow_result = None
    /\ provider \in (IF mode = "run_local_flow" THEN {AnthropicProvider} ELSE BuiltinProviders)
    /\ http_response = None
    /\ conn = NoConn
    /\ srv_timeout = None
    /\ srv_pc = "none"
    /\ listener = "none"
    /\ now = 0
    /\ deadline = 0
    /\ accepted = 0
    /\ log = <<>>
    /\ srv_result = None

InitTypesIdle ==
    /\ subject = None
    /\ results = <<>>

InitCoopIdle ==
    /\ slot = FALSE
    /\ mutex = 0
    /\ chan = None
    /\ rx = "dropped"
    /\ handlers = [h \in HandlerIds |-> IdleHandler]
    /\ sent = <<>>
    /\ first = None
    /\ waiter = None

\* the cooperative server serving: the sender in its slot, the receiver waited on
InitCoop ==
    /\ mode = "coop"
    /\ srv_timeout \in Timeouts
    /\ srv_pc = "idle"
    /\ listener = "bound"
    /\ now = 0
    /\ deadline = (IF srv_timeout = None THEN 0 ELSE Unwrap(srv_timeout))
    /\ accepted = 0
    /\ log = <<>>
    /\ srv_result = None
    /\ conn = NoConn
    /\ slot = TRUE
    /\ mutex = 0
    /\ chan = None
    /\ rx = "open"
    /\ handlers = [h \in HandlerIds |-> IdleHandler]
    /\ sent = <<>>
    /\ first = None
    /\ waiter = None

Init ==
    \/ InitServer /\ conn = NoConn /\ InitCoopIdle /\ InitFlowIdle /\ InitTypesIdle
    \/ InitCoop /\ InitFlowIdle /\ InitTypesIdle
Next ==
    \/ bind \/ listen_with \/ accept_blocking \/ handle_blocking \/ poll_accept \/ handle_timed
    \/ \E h \in HandlerIds : call_handler(h) \/ lock(h) \/ take_and_send(h)
    \/ tick \/ wait_received \/ wait_timed_out
    \/ drop_sender \/ wait_closed
Spec == Init /\ [][Next]_vars

FlowInit == InitFlow /\ InitCoopIdle /\ InitTypesIdle
FlowNext ==
    \/ flow_authorization_url \/ flow_server \/ flow_bind \/ flow_spawn
    \/ listen_with \/ accept_blocking \/ handle_blocking \/ poll_accept \/ handle_timed
    \/ flow_on_authorize \/ flow_await \/ flow_exchange_code
    \/ call_exchange_code \/ call_refresh_token \/ token_response
FlowSpec == FlowInit /\ [][FlowNext]_vars

\* an OAuthClient of any provider and config before authorization_url_with_state,
\* exchange_code or refresh_token is called on it
ClientInit ==
    /\ mode \in {"authorization_url", "exchange_code", "refresh_token"}
    /\ cfg \in ClientConfigs
    /\ provider \in Providers
    /\ flow_pc = "start"
    /\ auth = None
    /\ steps = <<>>
    /\ task = "none"
    /\ call = None
    /\ token_requests = <<>>
    /\ flow_result = None
    /\ http_response = None
    /\ conn = NoConn
    /\ srv_timeout = None
    /\ srv_pc = "none"
    /\ listener = "none"
    /\ now = 0
    /\ deadline = 0
    /\ accepted = 0
    /\ log = <<>>
    /\ srv_result = None
    /\ InitCoopIdle
    /\ InitTypesIdle
ClientNext ==
    call_authorization_url \/ call_exchange_code \/ call_refresh_token \/ token_response
ClientSpec == ClientInit /\ [][ClientNext]_vars

\* one listen_once call and a client that makes the same connection each time
\* it connects; the timeout, if any, is one poll interval
ConnInit ==
    /\ InitServer
    /\ srv_timeout \in {None, Some(1)}
    /\ conn \in Conns(srv_timeout # None)
    /\ InitCoopIdle
    /\ InitFlowIdle
    /\ InitTypesIdle
ConnNext == bind \/ listen_with \/ accept_blocking \/ poll_accept \/ handle_conn
ConnSpec == ConnInit /\ [][ConnNext]_vars

(* ------------------- the value types and their functions -------------- *)
\* codes and states a caller can pass to from_callback: with no '#', one, two,
\* a leading and a trailing one
Codes ==
    Vals \cup { <<"a", "#", "b", "#", "a">>, <<"#", "a">>, <<"a", "#">>, <<"#">> }
CallbackSubjects ==
    { [type |-> "callback", code |-> c, state |-> st] :
        c \in Codes, st \in { None } \cup { Some(v) : v \in Vals \cup { <<>> } } }

\* AuthorizationResponse::from_callback(code, state) (types.rs:23)
call_from_callback ==
    /\ subject # None
    /\ Unwrap(subject).type = "callback"
    /\ results = <<>>
    /\ results' = << from_callback(Unwrap(subject).code, Unwrap(subject).state) >>
    /\ UNCHANGED <<srv_vars, coop_vars, flow_vars, subject>>

\* serde_json values: each is its kind and its text
Json(kind, text) == [t |-> kind, v |-> text]
JNull == Json("null", "null")
Absent == Json("absent", "")

\* the fields TokenResponse names (types.rs:59-63)
Recognized == {"access_token", "refresh_token", "token_type", "scope", "expires_in"}

\* token endpoint answers: JSON objects, a function from the member names
\* present to their values; Absent marks a name left out
MemberSamples ==
    [access_token : {Absent, Json("string", "tok"), JNull, Json("number", "0")},
     refresh_token : {Absent, Json("string", "ref"), JNull},
     expires_in : {Absent, Json("number", "3600"), Json("number", "-1"), Json("string", "3600")},
     scope : {Absent, Json("string", "a b")},
     id_token : {Absent, Json("string", "jwt"), JNull, Json("object", "{\"sub\":1}")},
     extra : {Absent, Json("object", "{}"), Json("number", "1.5")}]
JsonSubjects ==
    { [type |-> "json",
       object |-> [k \in { n \in DOMAIN m : m[n] # Absent } |-> m[k]]] : m \in MemberSamples }

\* Deserialize for Option<String> and Option<u64> fields: a missing member and
\* null are None; of the sample numbers, u64 holds 3600 and 0
OptionString(object, k) ==
    IF k \notin DOMAIN object \/ object[k] = JNull THEN Ok(None)
    ELSE IF object[k].t = "string" THEN Ok(Some(object[k].v))
    ELSE Err("invalid type")
OptionU64(object, k) ==
    IF k \notin DOMAIN object \/ object[k] = JNull THEN Ok(None)
    ELSE IF object[k].t = "number" /\ object[k].v \in {"3600", "0"} THEN Ok(Some(object[k].v))
    ELSE Err("invalid type")

\* Deserialize putting every member, recognized or not, into extra
deserialize_all_into_extra(object) ==
    IF "access_token" \notin DOMAIN object THEN Err("missing field access_token")
    ELSE IF object["access_token"].t # "string" THEN Err("invalid type")
    ELSE IF \E k \in {"refresh_token", "token_type", "scope"} : ~OptionString(object, k).ok
    THEN Err("invalid type")
    ELSE IF ~OptionU64(object, "expires_in").ok THEN Err("invalid type")
    ELSE Ok([access_token |-> object["access_token"].v,
             refresh_token |-> OptionString(object, "refresh_token").val,
             token_type |-> OptionString(object, "token_type").val,
             scope |-> OptionString(object, "scope").val,
             expires_in |-> OptionU64(object, "expires_in").val,
             extra |-> object])

\* #[derive(Deserialize)] for TokenResponse: the recognized members fill the
\* named fields, #[serde(flatten)] collects the others in extra
deserialize(object) ==
    IF "access_token" \notin DOMAIN object THEN Err("missing field access_token")
    ELSE IF object["access_token"].t # "string" THEN Err("invalid type")
    ELSE IF \E k \in {"refresh_token", "token_type", "scope"} : ~OptionString(object, k).ok
    THEN Err("invalid type")
    ELSE IF ~OptionU64(object, "expires_in").ok THEN Err("invalid type")
    ELSE Ok([access_token |-> object["access_token"].v,
             refresh_token |-> OptionString(object, "refresh_token").val,
             token_type |-> OptionString(object, "token_type").val,
             scope |-> OptionString(object, "scope").val,
             expires_in |-> OptionU64(object, "expires_in").val,
             extra |-> [k \in DOMAIN object \ Recognized |-> object[k]]])

\* #[derive(Serialize)] for TokenResponse: the named fields (None as null),
\* then the entries of extra at the same level
serialize(token) ==
    [k \in Recognized \cup DOMAIN token.extra |->
        CASE k = "access_token" -> Json("string", token.access_token)
          [] k \in {"refresh_token", "token_type", "scope"} ->
                IF token[k] = None THEN JNull ELSE Json("string", Unwrap(token[k]))
          [] k = "expires_in" ->
                IF token.expires_in = None THEN JNull ELSE Json("number", Unwrap(token.expires_in))
          [] OTHER -> token.extra[k]]

\* serde_json::from_str::<TokenResponse>(&body) (client.rs:273)
call_deserialize ==
    /\ subject # None
    /\ Unwrap(subject).type = "json"
    /\ results = <<>>
    /\ results' = << deserialize(Unwrap(subject).object) >>
    /\ UNCHANGED <<srv_vars, coop_vars, flow_vars, subject>>

\* the caller serializes the TokenResponse it was given
call_serialize ==
    /\ subject # None
    /\ Unwrap(subject).type = "json"
    /\ Len(results) = 1
    /\ results[1].ok
    /\ results' = Append(results, serialize(results[1].val))
    /\ UNCHANGED <<srv_vars, coop_vars, flow_vars, subject>>

\* redirect URIs, each with the scheme, host, port and path as its text spells
\* them ("" for a part the text does not have)
Uri(text, scheme, host, port, path) ==
    [type |-> "redirect_uri", text |-> text, scheme |-> scheme, host |-> host,
     port |-> port, path |-> path]
UriSubjects ==
    { Uri("http://localhost:8765/callback", "http", "localhost", 8765, "/callback"),
      Uri("http://localhost:8765", "http", "localhost", 8765, ""),
      Uri("http://localhost/callback", "http", "localhost", -1, "/callback"),
      Uri("https://localhost:8765/callback", "https", "localhost", 8765, "/callback"),
      Uri("myapp://localhost:8765/callback", "myapp", "localhost", 8765, "/callback"),
      Uri("myapp:/callback", "myapp", "", -1, "/callback"),
      Uri("myapp://localhost:99999/callback", "myapp", "localhost", 99999, "/callback"),
      Uri("http://:8765/callback", "http", "", 8765, "/callback"),
      Uri("http://localhost:99999/callback", "http", "localhost", 99999, "/callback"),
      Uri("//localhost:8765/callback", "", "localhost", 8765, "/callback"),
      Uri("/callback", "", "", -1, "/callback") }

\* url::Url::parse: a text without a scheme is relative, http and https need a
\* host, a port is a u16; the path of an http or https URL is never empty
Url_parse(uri) ==
    IF uri.scheme = "" THEN Err("RelativeUrlWithoutBase")
    ELSE IF uri.scheme \in {"http", "https"} /\ uri.host = "" THEN Err("EmptyHost")
    ELSE IF uri.port > 65535 THEN Err("InvalidPort")
    ELSE Ok([scheme |-> uri.scheme,
             host_str |-> IF uri.host = "" THEN None ELSE Some(uri.host),
             port |-> IF uri.port < 0 THEN None ELSE Some(uri.port),
             path |-> IF uri.scheme \in {"http", "https"} /\ uri.path = ""
                      THEN "/" ELSE uri.path])
\* Url::port_or_known_default
port_or_known_default(url) ==
    IF url.port # None THEN url.port
    ELSE IF url.scheme = "http" THEN Some(80)
    ELSE IF url.scheme = "https" THEN Some(443)
    ELSE None

\* RedirectTarget::parse (target.rs:14-36)
parse(uri) ==
    LET url == Url_parse(uri)
    IN IF ~url.ok THEN Err(ErrUrl)
       ELSE IF url.val.scheme # "http" THEN Err(ErrInvalidRedirectUri)
       ELSE IF url.val.host_str = None THEN Err(ErrInvalidRedirectUri)
       ELSE IF port_or_known_default(url.val) = None THEN Err(ErrInvalidRedirectUri)
       ELSE Ok([scheme |-> url.val.scheme,
                host |-> Unwrap(url.val.host_str),
                port |-> Unwrap(port_or_known_default(url.val)),
                path |-> url.val.path])

\* LocalServer::new(redirect_uri) (server.rs:20-28)
call_new ==
    /\ subject # None
    /\ Unwrap(subject).type = "redirect_uri"
    /\ results = <<>>
    /\ results' = << parse(Unwrap(subject)) >>
    /\ UNCHANGED <<srv_vars, coop_vars, flow_vars, subject>>

\* server.bind() on the LocalServer that new returned (server.rs:55-57)
call_bind ==
    /\ subject # None
    /\ Unwrap(subject).type = "redirect_uri"
    /\ Len(results) = 1
    /\ results[1].ok
    /\ \E bound \in {Ok([host |-> results[1].val.host, port |-> results[1].val.port]),
                      Err(ErrIo("bind"))} :
         results' = Append(results, bound)
    /\ UNCHANGED <<srv_vars, coop_vars, flow_vars, subject>>

(* ------------------------------- pkce.rs ------------------------------ *)
\* the alphabet of base64::engine::general_purpose::URL_SAFE_NO_PAD
URL_SAFE ==
    <<
       "A", "B", "C", "D", "E", "F", "G", "H", "I", "J", "K", "L", "M", "N", "O", "P",
       "Q", "R", "S", "T", "U", "V", "W", "X", "Y", "Z", "a", "b", "c", "d", "e", "f",
       "g", "h", "i", "j", "k", "l", "m", "n", "o", "p", "q", "r", "s", "t", "u", "v",
       "w", "x", "y", "z", "0", "1", "2", "3", "4", "5", "6", "7", "8", "9", "-", "_" >>


\* the bytes of a sequence as one number, most significant byte first
RECURSIVE BytesValue(_)
BytesValue(bytes) ==
    IF bytes = <<>> THEN 0
    ELSE 256 * BytesValue(SubSeq(bytes, 1, Len(bytes) - 1)) + bytes[Len(bytes)]

\* STANDARD.encode: the other alphabet, and '=' up to a multiple of four
encode_standard(bytes) ==
    LET STANDARD_ALPHABET ==
            <<
               "A", "B", "C", "D", "E", "F", "G", "H", "I", "J", "K", "L", "M", "N", "O", "P",
               "Q", "R", "S", "T", "U", "V", "W", "X", "Y", "Z", "a", "b", "c", "d", "e", "f",
               "g", "h", "i", "j", "k", "l", "m", "n", "o", "p", "q", "r", "s", "t", "u", "v",
               "w", "x", "y", "z", "0", "1", "2", "3", "4", "5", "6", "7", "8", "9", "+", "/" >>
        n == Len(bytes)
        m == (8 * n + 5) \div 6
        padded == BytesValue(bytes) * (2 ^ (6 * m - 8 * n))
    IN [k \in 1..(4 * ((n + 2) \div 3)) |->
           IF k <= m THEN STANDARD_ALPHABET[((padded \div (64 ^ (m - k))) % 64) + 1]
           ELSE "="]

\* URL_SAFE_NO_PAD.encode: six bits per character, the last group filled with
\* zero bits, no '=' appended
encode(bytes) ==
    LET n == Len(bytes)
        m == (8 * n + 5) \div 6
        padded == BytesValue(bytes) * (2 ^ (6 * m - 8 * n))
    IN [k \in 1..m |-> URL_SAFE[((padded \div (64 ^ (m - k))) % 64) + 1]]

\* what OsRng can put in the buffer, and texts a caller can pass as a verifier.
\* Two bytes stand for the 32 of the buffer and of a SHA-256 digest: both
\* lengths end in a group of two bytes, the case in which a padded encoding
\* appends '='
PkceSubjects ==
    LET RandomBytes == { <<0, 0>>, <<255, 255>>, <<251, 240>>, <<3, 224>>, <<105, 183>> }
        VerifierTexts ==
            { encode(b) : b \in RandomBytes } \cup { <<"a">>, <<"a", "+", "/", "=">>, <<>> }
    IN { [type |-> "rng", filled |-> f] : f \in { Some(b) : b \in RandomBytes } \cup { None } }
       \cup { [type |-> "verifier", text |-> t] : t \in VerifierTexts }

\* Sha256 of the text's bytes. The digest cannot be computed here: a fixed
\* function of the characters and their places stands for it
Sha256(text) ==
    LET code(c) == IF \E i \in 1..64 : URL_SAFE[i] = c
                   THEN CHOOSE i \in 1..64 : URL_SAFE[i] = c
                   ELSE CASE c = "+" -> 65 [] c = "/" -> 66 [] OTHER -> 67
        sum[i \in 0..Len(text)] == IF i = 0 THEN 7 ELSE (31 * sum[i - 1] + code(text[i])) % 65536
    IN << (sum[Len(text)] \div 256) % 256, (sum[Len(text)] * 5 + 3) % 256 >>

\* PkcePair::from_verifier (pkce.rs:26-37)
from_verifier(code_verifier) ==
    [code_verifier |-> code_verifier, code_challenge |-> encode(Sha256(code_verifier))]

\* PkcePair::generate (pkce.rs:16-24): filled is None when OsRng fails
generate(filled) ==
    IF filled = None THEN Err(ErrOsRng)
    ELSE Ok(from_verifier(encode(Unwrap(filled))))

\* PkcePair::generate()
call_generate ==
    /\ subject # None
    /\ Unwrap(subject).type = "rng"
    /\ results = <<>>
    /\ results' = << generate(Unwrap(subject).filled) >>
    /\ UNCHANGED <<srv_vars, coop_vars, flow_vars, subject>>

\* PkcePair::from_verifier(text), called once and once more
call_from_verifier ==
    /\ subject # None
    /\ Unwrap(subject).type = "verifier"
    /\ Len(results) < 2
    /\ results' = Append(results, from_verifier(Unwrap(subject).text))
    /\ UNCHANGED <<srv_vars, coop_vars, flow_vars, subject>>

(* ------------------------ local_server/config.rs ---------------------- *)
\* A text is a sequence of pieces: the marks "://", ":", "/", "?", "#" and " ",
\* and names, which hold none of them.
\* normalize_path (config.rs:64-72)
normalize_path(path) ==
    IF path = <<>> THEN <<"/">>
    ELSE IF path[1] = "/" THEN path
    ELSE <<"/">> \o path

\* LocalServerConfig::new (config.rs:21-30)
LocalServerConfig_new(host, port, path) ==
    [host |-> host, port |-> port, path |-> normalize_path(path), timeout |-> None]

\* what LocalServerConfig::new is called with
LocalServerConfigSubjects ==
    { [type |-> "local_server_config", host |-> h, port |-> n, path |-> q] :
        h \in { <<"localhost">>, <<"LocalHost">>, <<>>, <<"localhost", "/", "a">> },
        n \in { 80, 8765 },
        q \in { <<>>, <<"callback">>, <<"/", "callback">>, <<"/">>,
                <<"/", "callback", "/", "done">>, <<"callback", "?", "x">>,
                <<"/", "callback", "#", "x">>, <<"/", "a", " ", "b">> } }

\* a u16 written by format!("{}") and read by the URL parser
PortText(port) == CASE port = 80 -> "80" [] port = 8765 -> "8765" [] OTHER -> "0"

\* LocalServerConfig::redirect_uri (config.rs:44-46)
redirect_uri(config) ==
    <<"http", "://">> \o config.host \o <<":", PortText(config.port)>> \o config.path

\* url::Url::parse of a text: the authority ends at the first "/", "?" or "#",
\* the port follows its last ":", the host is lower-cased and must be there,
\* the port of the scheme is not kept, the path ends at the first "?" or "#",
\* is "/" when empty, and has its spaces percent-encoded
Url_parse_text(text) ==
    IF Len(text) < 2 \/ text[2] # "://" THEN Err("RelativeUrlWithoutBase")
    ELSE
    LET rest == SubSeq(text, 3, Len(text))
        Ends(t, marks) == { i \in 1..Len(t) : t[i] \in marks }
        First(t, marks) ==
            IF Ends(t, marks) = {} THEN Len(t) + 1
            ELSE CHOOSE i \in Ends(t, marks) : \A j \in Ends(t, marks) : i <= j
        authority == SubSeq(rest, 1, First(rest, {"/", "?", "#"}) - 1)
        after == SubSeq(rest, First(rest, {"/", "?", "#"}), Len(rest))
        colons == Ends(authority, {":"})
        colon == IF colons = {} THEN Len(authority) + 1
                 ELSE CHOOSE i \in colons : \A j \in colons : j <= i
        host == SubSeq(authority, 1, colon - 1)
        port_text == SubSeq(authority, colon + 1, Len(authority))
        Ports == { n \in {0, 80, 8765} : PortText(n) = port_text[1] }
        written_path == SubSeq(after, 1, First(after, {"?", "#"}) - 1)
        Lower(name) == IF name = "LocalHost" THEN "localhost" ELSE name
    IN IF host = <<>> THEN Err("EmptyHost")
       ELSE IF Len(host) > 1 \/ host[1] = " " THEN Err("InvalidDomainCharacter")
       ELSE IF Len(port_text) > 1 \/ (Len(port_text) = 1 /\ Ports = {})
       THEN Err("InvalidPort")
       ELSE Ok([scheme |-> text[1],
                host_str |-> Some(<<Lower(host[1])>>),
                port |-> IF port_text = <<>> THEN None
                         ELSE LET n == CHOOSE n \in Ports : TRUE
                              IN IF text[1] = "http" /\ n = 80 THEN None ELSE Some(n),
                path |-> IF written_path = <<>> THEN <<"/">>
                         ELSE [i \in 1..Len(written_path) |->
                                  IF written_path[i] = " " THEN "%20"
                                  ELSE written_path[i]]])

\* LocalServerConfig::from_redirect_uri (config.rs:32-42) with
\* RedirectTarget::parse (target.rs:14-36)
from_redirect_uri(text) ==
    LET url == Url_parse_text(text)
    IN IF ~url.ok THEN Err(ErrUrl)
       ELSE IF url.val.scheme # "http" THEN Err(ErrInvalidRedirectUri)
       ELSE IF url.val.host_str = None THEN Err(ErrInvalidRedirectUri)
       ELSE IF port_or_known_default(url.val) = None THEN Err(ErrInvalidRedirectUri)
       ELSE Ok([host |-> Unwrap(url.val.host_str),
                port |-> Unwrap(port_or_known_default(url.val)),
                path |-> url.val.path,
                timeout |-> None])

\* OAuthClientConfig::with_local_server_config (client.rs:60-65)
with_local_server_config(config, local_server) ==
    [config EXCEPT !.redirect_uri = redirect_uri(local_server),
                   !.local_server = Some(local_server)]

\* LocalServerConfig::new(host, port, path)
call_LocalServerConfig_new ==
    /\ subject # None
    /\ Unwrap(subject).type = "local_server_config"
    /\ results = <<>>
    /\ results' = << LocalServerConfig_new(Unwrap(subject).host, Unwrap(subject).port,
                                            Unwrap(subject).path) >>
    /\ UNCHANGED <<srv_vars, coop_vars, flow_vars, subject>>

\* on the config that new returned: redirect_uri(), then from_redirect_uri of
\* that text, then with_local_server_config on a new OAuthClientConfig
call_config_method ==
    /\ subject # None
    /\ Unwrap(subject).type = "local_server_config"
    /\ Len(results) \in 1..3
    /\ results' = Append(results,
          CASE Len(results) = 1 -> redirect_uri(results[1])
            [] Len(results) = 2 -> from_redirect_uri(results[2])
            [] OTHER -> with_local_server_config(
                            [client_id |-> ClientId, client_secret |-> None,
                             redirect_uri |-> <<"http", "://", "other", "/">>,
                             scope |-> None, authorize_params |-> <<>>,
                             token_params |-> <<>>, timeout |-> None,
                             local_server |-> None],
                            results[1]))
    /\ UNCHANGED <<srv_vars, coop_vars, flow_vars, subject>>

Subjects ==
    CallbackSubjects \cup JsonSubjects \cup UriSubjects \cup PkceSubjects
    \cup LocalServerConfigSubjects

\* a value and nothing else: no server, no client
TypesInit ==
    /\ subject \in { Some(x) : x \in Subjects }
    /\ results = <<>>
    /\ mode = "types"
    /\ srv_timeout = None
    /\ srv_pc = "none"
    /\ listener = "none"
    /\ now = 0
    /\ deadline = 0
    /\ accepted = 0
    /\ log = <<>>
    /\ srv_result = None
    /\ conn = NoConn
    /\ InitCoopIdle
    /\ InitFlowIdle
TypesNext ==
    \/ call_from_callback \/ call_deserialize \/ call_serialize
    \/ call_new \/ call_bind
    \/ call_generate \/ call_from_verifier
    \/ call_LocalServerConfig_new \/ call_config_method
TypesSpec == TypesInit /\ [][TypesNext]_vars

(* ------------------------------ properties ---------------------------- *)
\* C1: one listen_with call yields at most one AuthorizationResponse: the
\* connection for which handle_request returned a response is the last one the
\* call accepted and handled, and the call has returned with that response.
C1_AtMostOneResponse ==
    \A i \in 1..Len(log) :
        (log[i].out.ret.ok /\ IsSome(log[i].out.ret.val)) =>
            /\ i = Len(log)
            /\ accepted = i
            /\ srv_pc = "done"
            /\ listener = "closed"
            /\ srv_result = Some(Ok(Unwrap(log[i].out.ret.val)))

\* a listen call that rejected a request and then returned a response
C1_ResponseAfterRejects ==
    /\ Len(log) >= 2
    /\ srv_result # None
    /\ Unwrap(srv_result).ok

\* C2: in the cooperative mode send_response writes at most once: the first
\* caller takes the sender and sends, every later caller finds the slot empty,
\* and what the channel and the waiter hold is the first caller's result.
C2_SingleWrite ==
    /\ Len(sent) <= 1
    /\ Cardinality({ h \in HandlerIds : handlers[h].wrote }) <= 1
    /\ sent # <<>> => (Some(sent[1]) = first /\ ~slot)
    /\ chan # None => chan = first
    /\ (waiter # None /\ chan # None) => waiter = first

\* two handlers called send_response; one wrote, the other found the slot empty
C2_LaterCallIsNoOp ==
    \E g, h \in HandlerIds :
        /\ g # h
        /\ handlers[g].wrote
        /\ handlers[h].pc = "done"
        /\ handlers[h].status \in {"200", "500"}
        /\ ~handlers[h].wrote
        /\ waiter # None
        /\ waiter = first

\* C3: with a timeout configured, a listen call that saw no valid callback
\* before the deadline (no connection, rejected requests only, connections that
\* sent nothing) and whose other system calls all succeeded returns
\* LocalServerTimeout with the configured timeout, never another error.
C3_TimeoutIsTheOnlyError ==
    ( /\ mode = "listen_once"
      /\ srv_timeout # None
      /\ srv_pc = "done"
      /\ \A i \in 1..Len(log) :
            /\ log[i].class \in {"non_get", "wrong_path", "no_code", "eof", "timeout"}
            /\ log[i].class # "timeout" => log[i].out.ret.ok
      /\ \A s \in {"bind", "set_nonblocking", "accept", "set_read_timeout"} :
            srv_result # Some(Err(ErrIo(s))) )
    => srv_result = Some(Err(ErrLocalServerTimeout(Unwrap(srv_timeout))))

\* C4: when on_authorize fails, run_local_flow returns that error, has sent no
\* token request, and leaves no listener bound and no listen task running.
C4_ListenerTornDown ==
    (mode = "run_local_flow" /\ flow_result = Some(Err(ErrCallback))) =>
        /\ token_requests = <<>>
        /\ listener # "bound"
        /\ (task = "spawned" => srv_pc = "done")

\* C5: when OAuthClientConfig.timeout is set, the capture server run_local_flow
\* starts listens with that timeout, with or without a LocalServerConfig.
C5_ListensWithClientTimeout ==
    (mode = "run_local_flow" /\ task = "spawned" /\ cfg.timeout # None) =>
        srv_timeout = cfg.timeout

\* C6 (as amended): run_local_flow performs its steps in the order: build the
\* authorization request, build the capture server, bind its listener, start
\* the listen task, hand the request to on_authorize, wait for the listen task,
\* call exchange_code with the captured response, the retained verifier and the
\* request's state. on_authorize runs with the listener bound and the task started.
C6_StepsInCodeOrder ==
    LET order == << "authorization_url", "server_new", "bind", "spawn_listen",
                    "on_authorize", "await_listen", "exchange_code" >>
        done(step) == \E i \in 1..Len(steps) : steps[i] = step
    IN mode = "run_local_flow" =>
        /\ Len(steps) <= Len(order)
        /\ steps = SubSeq(order, 1, Len(steps))
        /\ done("on_authorize") => (listener # "none" /\ task = "spawned")
        /\ done("exchange_code") =>
              /\ srv_pc = "done"
              /\ call = Some([response |-> Unwrap(srv_result).val,
                              code_verifier |-> Unwrap(auth).code_verifier,
                              expected_state |-> Some(Unwrap(auth).state)])

\* a flow that ran every step and posted a token request
C6_FlowRanToExchange ==
    /\ mode = "run_local_flow"
    /\ Len(steps) = 7
    /\ Len(token_requests) = 1

\* C6 (as stated): the capture server is started (bound, listening) only after
\* the present-to-user callback has been invoked.
C6_ServerStartedAfterPresent ==
    (mode = "run_local_flow" /\ (listener # "none" \/ task = "spawned")) =>
        \E i \in 1..Len(steps) : steps[i] = "on_authorize"

\* C7 (as amended): in run_local_flow a token request is sent only for a
\* captured callback whose parsed state equals the state placed in the
\* authorization URL or is absent; a callback whose parsed state differs ends
\* the flow with StateMismatch and no token request.
C7_TokenRequestOnlyForMatchingOrAbsentState ==
    (mode = "run_local_flow" /\ call # None) =>
        LET captured == Unwrap(srv_result).val
            url_state == Unwrap(auth).state
        IN /\ token_requests # <<>> =>
                 (captured.state = None \/ captured.state = Some(url_state))
           /\ (captured.state # None /\ captured.state # Some(url_state)) =>
                 /\ token_requests = <<>>
                 /\ flow_result =
                       Some(Err(ErrStateMismatch(url_state, Unwrap(captured.state))))

\* a flow whose callback carried another state: it ended with StateMismatch
C7_DifferentStateRejected ==
    /\ mode = "run_local_flow"
    /\ call # None
    /\ Unwrap(srv_result).val.state # None
    /\ flow_result # None
    /\ ~Unwrap(flow_result).ok
    /\ Unwrap(flow_result).err.kind = "StateMismatch"

\* C7 (as stated): a token request is sent only for a callback whose state
\* equals the state of the authorization URL; one with another state, or with
\* no state, never leads to a token request.
C7_TokenRequestOnlyForEqualState ==
    (mode = "run_local_flow" /\ token_requests # <<>>) =>
        Unwrap(srv_result).val.state = Some(Unwrap(auth).state)

\* C8: exchange_code returns StateMismatch{expected, received} exactly when an
\* expected state is given, the response carries a state, and the two differ;
\* otherwise the check passes and the token request is built and sent.
C8_StateMismatchExactly ==
    call # None =>
        LET a == Unwrap(call)
            differ == /\ a.expected_state # None
                      /\ a.response.state # None
                      /\ Unwrap(a.expected_state) # Unwrap(a.response.state)
        IN /\ differ =>
                 /\ token_requests = <<>>
                 /\ flow_result = Some(Err(ErrStateMismatch(Unwrap(a.expected_state),
                                                            Unwrap(a.response.state))))
           /\ ~differ =>
                 /\ Len(token_requests) = 1
                 /\ token_requests[1].payload["code"] = a.response.code
                 /\ "code_verifier" \in DOMAIN token_requests[1].payload
                 /\ (flow_result # None /\ ~Unwrap(flow_result).ok) =>
                        Unwrap(flow_result).err.kind # "StateMismatch"

\* exchange_code called with an expected state and a response without one: the
\* token request was sent
C8_AbsentStatePasses ==
    /\ mode = "exchange_code"
    /\ call # None
    /\ Unwrap(call).expected_state # None
    /\ Unwrap(call).response.state = None
    /\ Len(token_requests) = 1

\* C9: a GET to another path that is answered gets 404 and does not end the
\* listen call (no result, the listener still bound, the loop back at accept),
\* and a valid callback handled in the same call, after any such requests, is
\* answered 200 and returned as the call's AuthorizationResponse.
C9_WrongPathNotTerminal ==
    [][ Len(log') = Len(log) + 1 =>
          LET e == log'[Len(log')]
          IN /\ (e.class = "wrong_path" /\ e.out.status # "none") =>
                   /\ e.out.status = "404"
                   /\ srv_pc' \in {"accept", "poll"}
                   /\ srv_result' = None
                   /\ listener' = "bound"
             /\ (e.class = "valid" /\ e.out.status # "none") =>
                   /\ e.out.status = "200"
                   /\ srv_pc' = "done"
                   /\ srv_result' = Some(Ok(Unwrap(e.out.ret.val)))
      ]_vars

\* a listen call that answered 404 and later returned a valid callback's response
C9_ValidAfterWrongPath ==
    /\ Len(log) >= 2
    /\ \A i \in 1..(Len(log) - 1) : log[i].class = "wrong_path" /\ log[i].out.status = "404"
    /\ log[Len(log)].class = "valid"
    /\ srv_result # None
    /\ Unwrap(srv_result).ok

\* C10: a GET to the configured path without a code that is answered gets 400
\* and is not terminal. In the blocking handler the listen call has no result
\* and goes back to accept; in callback_handler send_response is not called, so
\* the slot, the channel and the waiter are untouched; a valid callback handled
\* later, with the sender still in the slot, completes the wait.
C10_MissingCodeNotTerminal ==
    [][ /\ Len(log') = Len(log) + 1 =>
             LET e == log'[Len(log')]
             IN (e.class = "no_code" /\ e.out.status # "none") =>
                   /\ e.out.status = "400"
                   /\ srv_pc' \in {"accept", "poll"}
                   /\ srv_result' = None
                   /\ listener' = "bound"
        /\ \A h \in HandlerIds :
             /\ (handlers[h].pc = "idle" /\ handlers'[h].class = "no_code") =>
                   /\ handlers'[h].status = "400"
                   /\ handlers'[h].pc = "done"
                   /\ handlers'[h].msg = None
                   /\ UNCHANGED <<slot, chan, sent, first, waiter>>
             /\ (/\ handlers[h].class = "valid"
                 /\ handlers[h].pc = "locked"
                 /\ handlers'[h].pc = "done"
                 /\ slot
                 /\ rx = "open") =>
                   /\ chan' = handlers[h].msg
                   /\ Unwrap(chan').ok
      ]_vars

\* callback_handler answered 400 to a request without a code, and a valid
\* callback handled after it reached the waiter
C10_ValidAfterMissingCode ==
    \E g, h \in HandlerIds :
        /\ g < h
        /\ handlers[g].class = "no_code"
        /\ handlers[g].status = "400"
        /\ handlers[g].pc = "done"
        /\ handlers[h].class = "valid"
        /\ handlers[h].wrote
        /\ waiter # None
        /\ Unwrap(waiter).ok

\* C11: a request that is answered and whose method is not GET gets 405,
\* whatever its path; a GET to another path gets 404; in both cases the listen
\* call has no result, keeps its listener and goes back to accepting.
C11_MethodBeforePath ==
    [][ (Len(log') = Len(log) + 1 /\ conn.read = "data" /\ conn.write_ok) =>
          LET e == log'[Len(log')]
              listening == /\ e.out.ret = Ok(None)
                           /\ srv_pc' \in {"accept", "poll"}
                           /\ srv_result' = None
                           /\ listener' = "bound"
          IN /\ conn.req.method # "GET" => (e.out.status = "405" /\ listening)
             /\ (conn.req.method = "GET" /\ conn.req.path # CallbackPath) =>
                   (e.out.status = "404" /\ listening)
      ]_vars

\* a POST to another path was answered 405 and the call is back at accept
C11_PostToWrongPathGets405 ==
    /\ conn # NoConn
    /\ conn.read = "data"
    /\ conn.req.method = "POST"
    /\ conn.req.path # CallbackPath
    /\ log # <<>>
    /\ log[Len(log)].out.status = "405"
    /\ srv_pc \in {"accept", "poll"}

\* C12: a GET to the configured path that is answered and whose query has one
\* code=c and one state=s makes the call return {code: c, state: Some(s)} after
\* a 200; with one code=c, no state and no '#' in c it returns {code: c, state: None}.
C12_CallbackYieldsCodeAndState ==
    ( /\ log # <<>>
      /\ conn.read = "data"
      /\ conn.write_ok
      /\ conn.req.method = "GET"
      /\ conn.req.path = CallbackPath
      /\ ~UrlFails(conn.req) ) =>
        LET q == conn.req.query
            at(k) == { i \in 1..Len(q) : q[i][1] = k }
        IN \A i \in at("code") :
              at("code") = {i} =>
                /\ \A j \in at("state") :
                      at("state") = {j} =>
                        /\ log[1].out.status = "200"
                        /\ srv_pc = "done"
                        /\ srv_result = Some(Ok([code |-> q[i][2], state |-> Some(q[j][2])]))
                /\ (at("state") = {} /\ \A n \in 1..Len(q[i][2]) : q[i][2][n] # "#") =>
                        /\ log[1].out.status = "200"
                        /\ srv_pc = "done"
                        /\ srv_result = Some(Ok([code |-> q[i][2], state |-> None]))

\* the query code=a#b&state=b was answered 200 and returned with its code unsplit
C12_CodeWithHashAndState ==
    /\ conn # NoConn
    /\ conn.read = "data"
    /\ conn.req.query = << <<"code", <<"a", "#", "b">> >>, <<"state", <<"b">> >> >>
    /\ srv_result = Some(Ok([code |-> <<"a", "#", "b">>, state |-> Some(<<"b">>)]))

\* C13: when rebuilding the callback URL fails (in build_callback_url or in
\* from_url's parse), the handler writes a 500 to the connection and the listen
\* call ends returning the underlying error.
C13_UrlFailureWrites500 ==
    ( /\ log # <<>>
      /\ conn.read = "data"
      /\ conn.write_ok
      /\ conn.req.method = "GET"
      /\ conn.req.path = CallbackPath
      /\ UrlFails(conn.req) ) =>
        /\ log[1].out.status = "500"
        /\ srv_pc = "done"
        /\ srv_result = Some(Err(ErrUrl))

\* C14 (as amended): the connections absorbed without ending the listen call
\* are those answered 405, 404 or 400 and those the peer closed before sending
\* a byte (nothing is written to them); any other failure while handling a
\* connection ends the call with that error, and an accepted connection that is
\* never handled is one the call returned an error for.
C14_AbsorbedOutcomes ==
    /\ \A i \in 1..Len(log) :
          LET e == log[i]
          IN /\ (e.out.ret = Ok(None)) <=>
                   \/ e.class \in {"non_get", "wrong_path", "no_code"} /\ e.out.status # "none"
                   \/ e.class = "eof"
             /\ (e.class = "non_get" /\ e.out.ret.ok) => e.out.status = "405"
             /\ (e.class = "wrong_path" /\ e.out.ret.ok) => e.out.status = "404"
             /\ (e.class = "no_code" /\ e.out.ret.ok) => e.out.status = "400"
             /\ e.class = "eof" => e.out.status = "none"
             /\ ~e.out.ret.ok =>
                   /\ i = Len(log)
                   /\ srv_pc = "done"
                   /\ srv_result = Some(Err(e.out.ret.err))
    /\ accepted \in {Len(log), Len(log) + 1}
    /\ accepted = Len(log) + 1 =>
          \/ srv_pc = "handle"
          \/ srv_pc = "done" /\ ~Unwrap(srv_result).ok

\* a connection closed without a byte was absorbed and the call handled another
C14_ClosedConnectionAbsorbed ==
    \E i \in 1..Len(log) :
        /\ i < Len(log)
        /\ log[i].class = "eof"
        /\ log[i].out = [status |-> "none", ret |-> Ok(None)]

\* C14 (as stated): every connection absorbed without ending the listen call
\* was answered 405, 404 or 400; none is dropped without a response.
C14_AbsorbedOnlyWithResponse ==
    \A i \in 1..Len(log) :
        log[i].out.ret = Ok(None) => log[i].out.status \in {"405", "404", "400"}

\* C15: for the same request the blocking handler and the cooperative handlers
\* send the same status and produce the same outcome: nothing (keep listening),
\* the same AuthorizationResponse, or the same error.
C15_SameStatusAndOutcome ==
    (log # <<>> /\ conn.read = "data" /\ conn.write_ok) =>
        /\ log[1].out.status = route(conn.req).status
        /\ (log[1].out.ret = Ok(None)) <=> (route(conn.req).send = None)
        /\ route(conn.req).send # None => srv_result = route(conn.req).send

\* C16: for a response received from the token endpoint, send_token_request
\* returns HttpStatus{status, body} with the body as received when the status
\* is not 2xx, whatever the body holds; InvalidResponse{message, body} with
\* the body as received when the status is 2xx and the body does not decode;
\* the decoded TokenResponse when the status is 2xx and the body decodes.
C16_StatusBeforeDecoding ==
    (/\ http_response # None
     /\ Unwrap(http_response).send_ok
     /\ Unwrap(http_response).text_ok) =>
        LET o == Unwrap(http_response)
            decodes == o.body.json /\ o.body.access_token # None
        IN /\ flow_pc = "done"
           /\ flow_result # None
           /\ o.status \notin 200..299 =>
                 Unwrap(flow_result) =
                     Err([kind |-> "HttpStatus", status |-> o.status, body |-> o.body.text])
           /\ (o.status \in 200..299 /\ ~decodes) =>
                 /\ ~Unwrap(flow_result).ok
                 /\ Unwrap(flow_result).err.kind = "InvalidResponse"
                 /\ Unwrap(flow_result).err.body = o.body.text
                 /\ Unwrap(flow_result).err.message \in
                        {"expected value", "missing field access_token"}
           /\ (o.status \in 200..299 /\ decodes) =>
                 Unwrap(flow_result) = Ok([access_token |-> Unwrap(o.body.access_token)])

\* a 400 whose body is not JSON came back as HttpStatus carrying that body
C16_ErrorStatusWithUndecodableBody ==
    /\ http_response # None
    /\ Unwrap(http_response).send_ok
    /\ Unwrap(http_response).text_ok
    /\ Unwrap(http_response).status = 400
    /\ ~Unwrap(http_response).body.json
    /\ flow_result = Some(Err(ErrHttpStatus(400, "not json")))

\* C17: nothing is retried. At most one request is ever POSTed to the token
\* endpoint by one exchange_code, refresh_token or run_local_flow call; one
\* run_local_flow binds at most once, spawns at most one listen, and a listen
\* that has started never starts again; once the operation has returned,
\* neither its result nor what it sent changes; and a failed send, a non-2xx
\* status, an undecodable body, a failed bind and a failed or timed-out listen
\* each end the operation with that error.
C17_NoRetries ==
    [][/\ Len(token_requests') <= 1
       /\ Cardinality({ i \in DOMAIN steps' : steps'[i] = "bind" }) <= 1
       /\ Cardinality({ i \in DOMAIN steps' : steps'[i] = "spawn_listen" }) <= 1
       /\ srv_pc \in {"accept", "poll", "handle", "done"} =>
             srv_pc' \in {"accept", "poll", "handle", "done"}
       /\ flow_pc = "done" =>
             /\ flow_pc' = "done"
             /\ flow_result' = flow_result
             /\ token_requests' = token_requests
             /\ http_response' = http_response
             /\ steps' = steps
       /\ (http_response = None /\ http_response' # None) =>
             LET o == Unwrap(http_response')
             IN /\ flow_pc' = "done"
                /\ flow_result' # None
                /\ (~o.send_ok \/ ~o.text_ok) => Unwrap(flow_result') = Err([kind |-> "Http"])
                /\ (o.send_ok /\ o.text_ok /\ o.status \notin 200..299) =>
                      /\ ~Unwrap(flow_result').ok
                      /\ Unwrap(flow_result').err.kind = "HttpStatus"
                /\ (o.send_ok /\ o.text_ok /\ o.status \in 200..299
                      /\ o.body.access_token = None) =>
                      /\ ~Unwrap(flow_result').ok
                      /\ Unwrap(flow_result').err.kind = "InvalidResponse"
       /\ (steps' # steps /\ steps'[Len(steps')] = "bind" /\ listener' # "bound") =>
             /\ flow_pc' = "done"
             /\ flow_result' = Some(Err([kind |-> "Io", io |-> "bind"]))
       /\ (steps' # steps /\ steps'[Len(steps')] = "await_listen"
             /\ ~Unwrap(srv_result).ok) =>
             /\ flow_pc' = "done"
             /\ flow_result' = Some(Err(Unwrap(srv_result).err))
             /\ token_requests' = <<>>
      ]_vars

\* a run_local_flow whose one token request failed to send has returned the
\* transport error
C17_FlowEndedByTransportError ==
    /\ mode = "run_local_flow"
    /\ Len(token_requests) = 1
    /\ http_response = Some([send_ok |-> FALSE])
    /\ flow_pc = "done"
    /\ flow_result = Some(Err(ErrHttp))

C19_ParamPrecedence ==
    (call # None /\ auth # None) =>
        LET a == Unwrap(auth)
            q == a.query
            Has(pairs, k) == \E i \in DOMAIN pairs : pairs[i][1] = k
            LastValue(pairs, k) ==
                pairs[CHOOSE i \in DOMAIN pairs :
                        /\ pairs[i][1] = k
                        /\ \A j \in DOMAIN pairs : pairs[j][1] = k => j <= i][2]
            scope == IF cfg.scope # None THEN Unwrap(cfg.scope) ELSE provider.default_scope
            Expected(k) ==
                CASE k = "response_type" -> "code"
                  [] k = "client_id" -> cfg.client_id
                  [] k = "redirect_uri" -> cfg.redirect_uri
                  [] k = "scope" -> scope
                  [] k = "code_challenge" -> a.code_challenge
                  [] k = "code_challenge_method" -> "S256"
                  [] k = "state" -> a.state
                  [] OTHER -> IF Has(cfg.authorize_params, k)
                              THEN LastValue(cfg.authorize_params, k)
                              ELSE LastValue(provider.authorize_params, k)
            keys == { provider.authorize_params[i][1] : i \in DOMAIN provider.authorize_params }
                    \cup { cfg.authorize_params[i][1] : i \in DOMAIN cfg.authorize_params }
                    \cup {"response_type", "client_id", "redirect_uri", "scope",
                          "code_challenge", "code_challenge_method", "state"}
        IN /\ a.scope = scope
           /\ \A k \in keys : { p \in DOMAIN q : p[1] = k } = { <<k, Expected(k)>> }

\* the provider sets code=true and the config code=false: the URL has code=false
C19_ConfigOverridesProviderParam ==
    /\ call # None
    /\ auth # None
    /\ provider = AnthropicProvider
    /\ cfg.authorize_params = << <<"code", "false">> >>
    /\ BagIn(<<"code", "false">>, Unwrap(auth).query)
    /\ ~BagIn(<<"code", "true">>, Unwrap(auth).query)

\* C20: the payload POSTed by exchange_code and by refresh_token has, for every
\* key, the config's token_params value added last for it, else the provider's
\* token_params value, else the grant field the operation set, and no other
\* key; the request carries the provider's token_headers, and its body is the
\* payload as JSON for a Json provider and form-encoded for a Form provider.
C20_TokenPayloadOverlay ==
    token_requests # <<>> =>
        LET req == token_requests[1]
            Has(pairs, k) == \E i \in DOMAIN pairs : pairs[i][1] = k
            LastValue(pairs, k) ==
                pairs[CHOOSE i \in DOMAIN pairs :
                        /\ pairs[i][1] = k
                        /\ \A j \in DOMAIN pairs : pairs[j][1] = k => j <= i][2]
            grant == IF mode = "refresh_token"
                     THEN refresh_token(cfg, req.payload["refresh_token"])
                     ELSE exchange_code(cfg, Unwrap(call).response, Unwrap(call).code_verifier,
                                        Unwrap(call).expected_state).val
        IN /\ mode = "refresh_token" =>
                 /\ grant["grant_type"] = "refresh_token"
                 /\ grant["client_id"] = cfg.client_id
                 /\ req.payload["refresh_token"] \in RefreshTokens
           /\ DOMAIN req.payload =
                 DOMAIN grant
                 \cup { provider.token_params[i][1] : i \in DOMAIN provider.token_params }
                 \cup { cfg.token_params[i][1] : i \in DOMAIN cfg.token_params }
           /\ \A k \in DOMAIN req.payload :
                 req.payload[k] =
                     IF Has(cfg.token_params, k) THEN LastValue(cfg.token_params, k)
                     ELSE IF Has(provider.token_params, k)
                          THEN LastValue(provider.token_params, k)
                          ELSE grant[k]
           /\ req.headers = provider.token_headers
           /\ req.body.fields = req.payload
           /\ req.body.content_type =
                 (IF provider.token_request_format = "Json"
                  THEN "application/json"
                  ELSE "application/x-www-form-urlencoded")

\* refresh_token with a provider and a config that both set client_id: the
\* form-encoded request carries the config's client_id and the provider's
\* grant_type
C20_ConfigOverProviderOverGrant ==
    /\ mode = "refresh_token"
    /\ provider = CustomProvider
    /\ cfg.token_params = << <<"client_id", "config-client">>, <<"resource", "r">> >>
    /\ Len(token_requests) = 1
    /\ token_requests[1].payload["client_id"] = "config-client"
    /\ token_requests[1].payload["grant_type"] = "custom_grant"
    /\ token_requests[1].body.content_type = "application/x-www-form-urlencoded"
    /\ token_requests[1].headers = CustomProvider.token_headers

\* C21: with no token_params overlaid, the payload exchange_code sends has
\* exactly grant_type=authorization_code, code, client_id, redirect_uri and
\* code_verifier, client_secret exactly when the config has one, and state
\* exactly when the response's state or the expected state is present (the
\* response's when present, else the expected one); the payload refresh_token
\* sends has exactly grant_type=refresh_token, refresh_token, client_id and
\* client_secret when the config has one.
C21_GrantPayloads ==
    (token_requests # <<>> /\ provider.token_params = <<>> /\ cfg.token_params = <<>>) =>
        LET p == token_requests[1].payload
            secret == IF cfg.client_secret # None THEN {"client_secret"} ELSE {}
        IN /\ p["client_id"] = cfg.client_id
           /\ "client_secret" \in DOMAIN p => p["client_secret"] = Unwrap(cfg.client_secret)
           /\ mode = "refresh_token" =>
                 /\ DOMAIN p = {"grant_type", "refresh_token", "client_id"} \cup secret
                 /\ p["grant_type"] = "refresh_token"
                 /\ p["refresh_token"] \in RefreshTokens
           /\ mode # "refresh_token" =>
                 LET a == Unwrap(call)
                     with_state == IF a.response.state # None \/ a.expected_state # None
                                   THEN {"state"} ELSE {}
                 IN /\ DOMAIN p = {"grant_type", "code", "client_id", "redirect_uri",
                                   "code_verifier"} \cup secret \cup with_state
                    /\ p["grant_type"] = "authorization_code"
                    /\ p["code"] = a.response.code
                    /\ p["redirect_uri"] = cfg.redirect_uri
                    /\ p["code_verifier"] = a.code_verifier
                    /\ "state" \in DOMAIN p =>
                          p["state"] = (IF a.response.state # None
                                        THEN Unwrap(a.response.state)
                                        ELSE Unwrap(a.expected_state))

\* exchange_code for a confidential client, called with an expected state and a
\* response without one: the payload carries the secret and the expected state
C21_ExpectedStateAndSecretSent ==
    /\ mode = "exchange_code"
    /\ cfg.client_secret # None
    /\ call # None
    /\ Unwrap(call).response.state = None
    /\ Unwrap(call).expected_state = Some(<<"b">>)
    /\ Len(token_requests) = 1
    /\ token_requests[1].payload["state"] = <<"b">>
    /\ token_requests[1].payload["client_secret"] = "secret"

\* C23: from_callback given a state returns the code as it is, '#' included,
\* with that state; given no state and a code holding '#', it returns the text
\* before the first '#' as the code and all the text after it as the state;
\* given no state and a code without '#', it returns the code and no state.
C23_ExplicitStateWins ==
    (subject # None /\ Unwrap(subject).type = "callback" /\ results # <<>>) =>
        LET code == Unwrap(subject).code
            state == Unwrap(subject).state
            hashes == { i \in 1..Len(code) : code[i] = "#" }
            r == results[1]
        IN /\ state # None => r = [code |-> code, state |-> state]
           /\ (state = None /\ hashes = {}) => r = [code |-> code, state |-> None]
           /\ (state = None /\ hashes # {}) =>
                 \E i \in hashes :
                    /\ \A j \in hashes : i <= j
                    /\ r.code = [k \in 1..(i - 1) |-> code[k]]
                    /\ r.state = Some([k \in 1..(Len(code) - i) |-> code[i + k]])

\* a code with two '#' and no state was split at the first one
C23_SplitAtFirstHash ==
    /\ subject = Some([type |-> "callback", code |-> <<"a", "#", "b", "#", "a">>,
                       state |-> None])
    /\ results = << [code |-> <<"a">>, state |-> Some(<<"b", "#", "a">>)] >>

\* C22: when a token endpoint object decodes as a TokenResponse, extra holds
\* exactly the members whose name is not access_token, refresh_token,
\* token_type, scope or expires_in, each with its value; and the object the
\* TokenResponse serializes to has, beside the five named fields, exactly those
\* members again, each with the same name and value.
C22_ExtraFieldsRoundTrip ==
    (subject # None /\ Unwrap(subject).type = "json" /\ results # <<>> /\ results[1].ok) =>
        LET object == Unwrap(subject).object
            token == results[1].val
            named == {"access_token", "refresh_token", "token_type", "scope", "expires_in"}
            others == DOMAIN object \ named
        IN /\ DOMAIN token.extra = others
           /\ \A k \in others : token.extra[k] = object[k]
           /\ Len(results) = 2 =>
                 /\ DOMAIN results[2] \ named = others
                 /\ \A k \in others : results[2][k] = object[k]
                 /\ results[2]["access_token"] = object["access_token"]

\* an answer with a member named extra, a null id_token and a scope was decoded
\* and serialized: the two unrecognized members are back at top level
C22_NullAndExtraMembersKept ==
    /\ subject # None
    /\ Unwrap(subject).type = "json"
    /\ Len(results) = 2
    /\ DOMAIN Unwrap(subject).object = {"access_token", "scope", "id_token", "extra"}
    /\ Unwrap(subject).object["id_token"] = JNull
    /\ results[2]["id_token"] = JNull
    /\ results[2]["extra"] = Unwrap(subject).object["extra"]
    /\ DOMAIN results[1].val.extra = {"id_token", "extra"}

\* C24: a listener is bound only for a redirect URI with scheme http, a host
\* and a port that is given or defaulted; LocalServer::new rejects every other
\* redirect URI with InvalidRedirectUri, so that bind is never reached for it;
\* and the target's path is "/" when the URI has no path.
C24_OnlyHttpHostPortBinds ==
    (subject # None /\ Unwrap(subject).type = "redirect_uri" /\ results # <<>>) =>
        LET uri == Unwrap(subject)
            accepted_uri == /\ uri.scheme = "http"
                            /\ uri.host # ""
                            /\ uri.port <= 65535
        IN /\ Len(results) = 2 => accepted_uri
           /\ ~accepted_uri => results[1] = Err([kind |-> "InvalidRedirectUri"])
           /\ (accepted_uri /\ uri.path = "") =>
                 (results[1].ok /\ results[1].val.path = "/")

C26_LifecycleAndRelease ==
    [][ LET Listening == {"accept", "poll", "handle"}
            Order(pc) == CASE pc \in {"none", "idle"} -> 0 [] pc = "bound" -> 1
                           [] pc \in Listening -> 2 [] OTHER -> 3
        IN /\ Order(srv_pc') >= Order(srv_pc)
           /\ Order(srv_pc') <= Order(srv_pc) + 1 \/ srv_pc' = "done"
           /\ srv_result # None => (srv_result' = srv_result /\ srv_pc' = "done")
           /\ (srv_result' # None) <=> (srv_pc' = "done")
           /\ (srv_pc = "idle" /\ srv_pc' = "done") =>
                 (srv_result' = Some(Err(ErrIo("bind"))) /\ listener' = "none")
           /\ (listener = "none" /\ listener' # "none") =>
                 (srv_pc = "idle" /\ srv_pc' = "bound" /\ listener' = "bound")
           /\ (listener = "bound" /\ listener' # "bound") =>
                 (srv_pc # "done" /\ srv_pc' = "done" /\ listener' = "closed")
           /\ listener = "closed" => listener' = "closed"
           /\ srv_pc' \in Listening => listener' = "bound"
           /\ srv_result' # None => listener' # "bound"
      ]_vars

\* a timed listen took a connection that did not end it and then ran into its
\* deadline: the result is the timeout and the listener is closed
C26_TimedOutAndReleased ==
    /\ mode = "listen_once"
    /\ srv_result # None
    /\ ~Unwrap(srv_result).ok
    /\ Unwrap(srv_result).err.kind = "LocalServerTimeout"
    /\ Len(log) > 0
    /\ listener = "closed"

\* C27: in run_local_flow the authorization URL carries one code_challenge,
\* the S256 of the request's verifier, one state, the request's state, and one
\* redirect_uri, the config's; exchange_code is called with that verifier and
\* with that state as the expected state; and, where neither the provider's
\* nor the config's token_params name code_verifier or redirect_uri, the token
\* request carries that verifier and that redirect_uri.
C27_PkceBindingUnlessOverlaid ==
    (mode = "run_local_flow" /\ call # None) =>
        LET a == Unwrap(auth)
            ValuesOf(key) == { p[2] : p \in { q \in DOMAIN a.query : q[1] = key } }
            Named(params) == { params[i][1] : i \in DOMAIN params }
            overlaid == (Named(provider.token_params) \cup Named(cfg.token_params))
                           \cap {"code_verifier", "redirect_uri"}
        IN /\ ValuesOf("code_challenge") = { S256(a.code_verifier) }
           /\ a.query[<<"code_challenge", S256(a.code_verifier)>>] = 1
           /\ ValuesOf("state") = { a.state }
           /\ ValuesOf("redirect_uri") = { cfg.redirect_uri }
           /\ Unwrap(call).code_verifier = a.code_verifier
           /\ Unwrap(call).expected_state = Some(a.state)
           /\ (token_requests # <<>> /\ overlaid = {}) =>
                 /\ Len(token_requests) = 1
                 /\ token_requests[1].payload["code_verifier"] = a.code_verifier
                 /\ token_requests[1].payload["redirect_uri"] \in ValuesOf("redirect_uri")

\* the flow sent its token request with the verifier whose challenge is in the URL
C27_VerifierOfTheUrlSent ==
    /\ mode = "run_local_flow"
    /\ cfg.token_params = <<>>
    /\ Len(token_requests) = 1
    /\ "on_authorize" \in { steps[i] : i \in DOMAIN steps }
    /\ token_requests[1].payload["code_verifier"] = <<"b">>
    /\ Unwrap(auth).query[<<"code_challenge", S256(<<"b">>)>>] = 1

\* C27 as stated: every token request of run_local_flow carries the verifier
\* and the redirect_uri of the authorization URL
C27_PkceBindingAlways ==
    (mode = "run_local_flow" /\ token_requests # <<>>) =>
        /\ token_requests[1].payload["code_verifier"] = Unwrap(auth).code_verifier
        /\ <<"redirect_uri", token_requests[1].payload["redirect_uri"]>>
              \in DOMAIN Unwrap(auth).query

\* C28: in run_local_flow on_authorize is invoked only with the listener
\* bound by a bind that came before it; and a flow ended by building the
\* authorization request, by constructing the LocalServer or by bind returned
\* that step's error, never invoked on_authorize, never started the listen
\* task and sent no token request.
C28_PresentOnlyAfterBind ==
    mode = "run_local_flow" =>
        LET Done == { steps[i] : i \in DOMAIN steps }
            At(step) == CHOOSE i \in DOMAIN steps : steps[i] = step
            EndedAt(step) == /\ flow_result # None
                             /\ steps # <<>>
                             /\ steps[Len(steps)] = step
            Errors(step) ==
                CASE step = "authorization_url" -> { ErrOsRng, ErrUrl }
                  [] step = "server_new" -> { ErrUrl, ErrInvalidRedirectUri }
                  [] step = "bind" -> { ErrIo("bind") }
        IN /\ "on_authorize" \in Done =>
                 /\ "bind" \in Done
                 /\ At("bind") < At("on_authorize")
                 /\ listener \in {"bound", "closed"}
                 /\ \/ listener = "bound"
                    \/ srv_result # None
           /\ \A step \in {"authorization_url", "server_new", "bind"} :
                 EndedAt(step) =>
                    /\ ~Unwrap(flow_result).ok
                    /\ Unwrap(flow_result).err \in Errors(step)
                    /\ "on_authorize" \notin Done
                    /\ task = "none"
                    /\ listener = "none"
                    /\ token_requests = <<>>

\* bind failed: the flow returned the I/O error after three steps
C28_BindFailedBeforePresent ==
    /\ mode = "run_local_flow"
    /\ steps = <<"authorization_url", "server_new", "bind">>
    /\ flow_result = Some(Err(ErrIo("bind")))
    /\ auth # None

\* C29: the step in which exchange_code returns StateMismatch sends nothing, no
\* request was sent before it, and none is sent after it.
C29_NothingSentOnMismatch ==
    [][ LET Mismatch(res) == /\ res # None
                             /\ ~Unwrap(res).ok
                             /\ Unwrap(res).err.kind = "StateMismatch"
        IN /\ (~Mismatch(flow_result) /\ Mismatch(flow_result')) =>
                 /\ call' # None
                 /\ token_requests = <<>>
                 /\ token_requests' = <<>>
                 /\ http_response' = None
           /\ Mismatch(flow_result) =>
                 /\ token_requests' = <<>>
                 /\ http_response' = None
                 /\ flow_result' = flow_result
      ]_vars

\* a direct call of exchange_code by a client with a secret returned
\* StateMismatch with nothing sent
C29_DirectCallRejected ==
    /\ mode = "exchange_code"
    /\ cfg.client_secret # None
    /\ call # None
    /\ flow_result # None
    /\ ~Unwrap(flow_result).ok
    /\ Unwrap(flow_result).err.kind = "StateMismatch"
    /\ token_requests = <<>>

\* C30: wait_for_response returns once. It returns the result written to the
\* channel whenever one is there when it returns; with nothing written it
\* returns InvalidResponse ("local server response channel closed") when the
\* sender was dropped unsent, and LocalServerTimeout with the configured
\* timeout when a timeout is set and has elapsed and the sender is still
\* there; without a timeout it returns in the first two ways only.
C30_WaitReturnsOneOutcome ==
    [][ LET Closed ==
                Err(ErrInvalidResponseBody("local server response channel closed", ""))
        IN /\ waiter # None => waiter' = waiter
           /\ (waiter = None /\ waiter' # None) =>
                 /\ mode = "coop"
                 /\ rx' = "dropped"
                 /\ \/ /\ chan # None
                       /\ sent # <<>>
                       /\ waiter' = Some(sent[1])
                       /\ waiter' = chan
                    \/ /\ chan = None
                       /\ sent = <<>>
                       /\ rx = "closed"
                       /\ waiter' = Some(Closed)
                    \/ /\ chan = None
                       /\ sent = <<>>
                       /\ rx = "open"
                       /\ srv_timeout # None
                       /\ now >= deadline
                       /\ waiter' = Some(Err(ErrLocalServerTimeout(Unwrap(srv_timeout))))
      ]_vars

\* under a timeout that had not elapsed, requests were answered without a
\* write, the sender was dropped, and the wait ended with InvalidResponse
C30_ClosedBeforeTimeout ==
    /\ mode = "coop"
    /\ srv_timeout # None
    /\ now < deadline
    /\ \E h \in HandlerIds : handlers[h].pc = "done"
    /\ waiter # None
    /\ ~Unwrap(waiter).ok
    /\ Unwrap(waiter).err.kind = "InvalidResponse"
    /\ Unwrap(waiter).err.message = "local server response channel closed"

\* C31: in the cooperative mode a handler given a valid callback answers 200,
\* whatever becomes of its response; when it leaves send_response having found
\* the slot empty, or with the waiter gone, the channel and what the waiter
\* returned are as before, and what the waiter returned never changes.
C31_DuplicateCallbackAnswered200 ==
    [][ /\ \A h \in HandlerIds :
              (handlers'[h].class = "valid" /\ handlers'[h].pc # "idle") =>
                  handlers'[h].status = "200"
        /\ \A h \in HandlerIds :
              (handlers[h].class = "valid" /\ handlers[h].pc = "locked"
                 /\ handlers'[h].pc = "done" /\ (~slot \/ rx = "dropped")) =>
                  /\ handlers'[h].status = "200"
                  /\ chan' = chan
                  /\ waiter' = waiter
                  /\ ~slot => sent' = sent
        /\ waiter # None => waiter' = waiter
      ]_vars

\* the waiter had timed out with nothing written; a valid callback handled
\* after that took the sender, was answered 200, and reached nobody
C31_ValidCallbackAfterTimeout ==
    /\ mode = "coop"
    /\ waiter # None
    /\ ~Unwrap(waiter).ok
    /\ Unwrap(waiter).err.kind = "LocalServerTimeout"
    /\ chan = None
    /\ \E h \in HandlerIds :
          /\ handlers[h].class = "valid"
          /\ handlers[h].pc = "done"
          /\ handlers[h].wrote
          /\ handlers[h].status = "200"

\* C32: the path LocalServerConfig::new stores begins with '/': "/" for an
\* empty path, the path behind a '/' when it has no leading one, the path
\* itself when it has, so that new on the stored path stores it again;
\* redirect_uri() is "http://", the host, ":", the port and the path;
\* from_redirect_uri of that text gives back the config's host, port and
\* path; and with_local_server_config makes that text the client's
\* redirect_uri.
C32_ConfigPathAndRoundTrip ==
    (subject # None /\ Unwrap(subject).type = "local_server_config" /\ results # <<>>) =>
        LET given == Unwrap(subject)
            c == results[1]
            port_written == CASE c.port = 80 -> "80" [] c.port = 8765 -> "8765"
        IN /\ c.host = given.host /\ c.port = given.port
           /\ c.path # <<>> /\ c.path[1] = "/"
           /\ given.path = <<>> => c.path = <<"/">>
           /\ (given.path # <<>> /\ given.path[1] # "/") => c.path = <<"/">> \o given.path
           /\ (given.path # <<>> /\ given.path[1] = "/") => c.path = given.path
           /\ LocalServerConfig_new(c.host, c.port, c.path) = c
           /\ Len(results) >= 2 =>
                 results[2] = <<"http", "://">> \o c.host \o <<":", port_written>> \o c.path
           /\ Len(results) >= 3 =>
                 /\ results[3].ok
                 /\ results[3].val.host = c.host
                 /\ results[3].val.port = c.port
                 /\ results[3].val.path = c.path
           /\ Len(results) = 4 =>
                 /\ results[4].redirect_uri = results[2]
                 /\ results[4].local_server = Some(c)

====
